---------------------------- MODULE Spec2Model ----------------------------
(***************************************************************************)
(* Model of the retrieval pipeline of videoask-ai:                         *)
(*   - the chunker            (src/lib/chunking.ts)                        *)
(*   - similarity search      (src/lib/embeddings.ts, vectorStore)         *)
(*   - the vector store       (src/unnamed/part_016, lib/vectorStore)      *)
(*   - the /api/ask handler   (src/unnamed/part_012)                       *)
(*                                                                         *)
(* Texts are sequences of one-character strings, so that lengths, offsets, *)
(* trimming and the sentence regex are computed as the code computes them. *)
(* Timestamps are kept in thousandths of a second (the code divides the    *)
(* millisecond offsets by 1000 into a float).                              *)
(***************************************************************************)
EXTENDS Integers, Sequences, FiniteSets, TLC

VARIABLES
    \* ---- chunker (one call of chunkTranscript) ----
    c_pc,             \* "start" | "window" | "done"
    transcript,       \* the segments passed in
    targetWords,      \* parameter
    overlapSegments,  \* parameter
    i,                \* loop variable of the window loop
    chunks,           \* the chunks array being built / returned
    iter,             \* number of loop iterations taken (caps non-terminating runs)
    \* ---- vector store (module state of lib/vectorStore) ----
    vectorStore,      \* the Map videoId -> VectorChunk[]: a function on its keys
    \* ---- one direct use of the store: storeChunks, then searchSimilar ----
    s_pc,             \* "start" | "stored" | "done"
    s_input,          \* the arguments: videoId, chunks, embeddings, query, topK
    s_result,         \* what searchSimilar returned
    \* ---- one /api/ask request and its surroundings ----
    a_pc,             \* where the handler is suspended (see the actions)
    a_req,            \* the request body: videoId, question
    a_events,         \* events enqueued on the response stream, in order
    a_cancelled,      \* the caller cancelled the response stream
    a_embedding,      \* questionEmbedding
    a_found,          \* foundChunks
    a_context,        \* similarChunks
    a_answer,         \* answerText
    a_stream,         \* the generation stream: "none" | "open" | "ended" |
                      \*   "failed" | "released"
    a_deltas,         \* chunks read from the provider's completion stream
    \* ---- history (not program state) ----
    a_yielded,        \* tokens the generation stream yielded to the handler
    a_calls,          \* calls the handler made to its collaborators, in order
    a_cancelAt,       \* Len(a_yielded) when the caller cancelled, -1 before
    installed,        \* videoId -> collections storeChunks was asked to install
    writes,           \* number of storeChunks calls by processing requests
    \* ---- one /api/process-transcript request and its processPersona caller ----
    p_pc,             \* position of the handler, see ProcNext
    p_req,            \* personaId, transcript of the request body
    p_events,         \* events enqueued on the response stream, in order
    p_cancelled,      \* the caller cancelled the response stream
    p_segments,       \* transcriptSegments
    p_chunks,         \* chunks
    p_i,              \* generateEmbeddings: loop variable i
    p_acc,            \* generateEmbeddings: its local embeddings array
    p_embeddings,     \* the handler's embeddings, once generateEmbeddings returned
    p_progress,       \* the calls of onProgress, as <<current, total>>, in order
    p_result,         \* what processPersona returned
    q_pc,             \* position of a second processing request for the persona
    (* generateEmbedding (lib/embeddings.ts) *)
    e_pc,             \* position of the call of generateEmbedding
    e_env,            \* process.env.USE_HUGGINGFACE_API
    e_text,           \* the text of the call
    e_pipeline,       \* embeddingPipeline: null or the loaded model
    e_attempts,       \* the providers tried by the call, with their outcomes
    e_result,         \* what the call returned or threw
    e_calls,          \* calls made so far
    (* the chat page (part_011) *)
    k_pc,             \* position of handleSubmit
    k_events,         \* the events the response stream delivers
    k_pos,            \* events read so far
    k_isStreaming,    \* isStreaming
    k_answerText,     \* answerText
    k_messages        \* messages

chunkVars == <<c_pc, transcript, targetWords, overlapSegments, i, chunks, iter>>

searchVars == <<s_pc, s_input, s_result>>

askVars == <<a_pc, a_req, a_events, a_cancelled, a_embedding, a_found, a_context,
             a_answer, a_stream, a_deltas, a_yielded, a_calls, a_cancelAt>>

histVars == <<installed, writes>>

procVars == <<p_pc, p_req, p_events, p_cancelled, p_segments, p_chunks, p_i, p_acc,
              p_embeddings, p_progress, p_result, q_pc>>

embedVars == <<e_pc, e_env, e_text, e_pipeline, e_attempts, e_result, e_calls>>

chatVars == <<k_pc, k_events, k_pos, k_isStreaming, k_answerText, k_messages>>

vars == <<chunkVars, vectorStore, searchVars, askVars, histVars, procVars,
         embedVars, chatVars>>

-----------------------------------------------------------------------------
(* The parts of the state a specification does not use *)

ChunkOff ==
    /\ c_pc = "off"
    /\ transcript = <<>>
    /\ targetWords = 0
    /\ overlapSegments = 0
    /\ i = 0
    /\ chunks = <<>>
    /\ iter = 0

ChatOff ==
    /\ k_pc = "off"
    /\ k_events = <<>>
    /\ k_pos = 0
    /\ k_isStreaming = FALSE
    /\ k_answerText = ""
    /\ k_messages = <<>>

EmbedOff ==
    /\ e_pc = "off"
    /\ e_env = "off"
    /\ e_text = <<>>
    /\ e_pipeline = "off"
    /\ e_attempts = <<>>
    /\ e_result = <<>>
    /\ e_calls = 0

SearchOff ==
    /\ s_pc = "off"
    /\ s_input = <<>>
    /\ s_result = <<>>

ProcOff ==
    /\ p_pc = "off"
    /\ p_req = <<>>
    /\ p_events = <<>>
    /\ p_cancelled = FALSE
    /\ p_segments = <<>>
    /\ p_chunks = <<>>
    /\ p_i = 0
    /\ p_acc = <<>>
    /\ p_embeddings = <<>>
    /\ p_progress = <<>>
    /\ p_result = <<>>
    /\ q_pc = "off"

AskOff ==
    /\ a_pc = "off"
    /\ a_req = <<>>
    /\ a_events = <<>>
    /\ a_cancelled = FALSE
    /\ a_embedding = <<>>
    /\ a_found = <<>>
    /\ a_context = <<>>
    /\ a_answer = <<>>
    /\ a_stream = "none"
    /\ a_deltas = 0
    /\ a_yielded = <<>>
    /\ a_calls = <<>>
    /\ a_cancelAt = -1
    /\ installed = <<>>
    /\ writes = 0

-----------------------------------------------------------------------------
(* Generic helpers *)

Min(a, b) == IF a < b THEN a ELSE b

Max(a, b) == IF a > b THEN a ELSE b

RECURSIVE SumLen(_, _)
\* total of Len(ss[k]) + 1 for k < n  (the "+1 for space" prefix sums)
SumLen(ss, n) == IF n = 0 THEN 0 ELSE SumLen(ss, n - 1) + Len(ss[n]) + 1

-----------------------------------------------------------------------------
(* String primitives of JavaScript used by the chunker *)

\* \s of the regexes, restricted to the alphabet of the model
IsSpace(c) == c = " "

\* the class [.!?]
IsTerminator(c) == c \in {".", "!", "?"}

\* String.prototype.trim
Trim(s) ==
    LET nonsp == {k \in 1..Len(s) : ~IsSpace(s[k])}
    IN IF nonsp = {} THEN <<>>
       ELSE LET lo == CHOOSE k \in nonsp : \A m \in nonsp : k <= m
                hi == CHOOSE k \in nonsp : \A m \in nonsp : k >= m
            IN SubSeq(s, lo, hi)

\* s.split(/\s+/).filter(w => w.length > 0).length
WordCount(s) ==
    Cardinality({k \in 1..Len(s) : ~IsSpace(s[k]) /\ (k = 1 \/ IsSpace(s[k-1]))})

RECURSIVE Join(_, _)
\* Array.prototype.join
Join(ss, sep) ==
    IF Len(ss) = 0 THEN <<>>
    ELSE IF Len(ss) = 1 THEN ss[1]
    ELSE ss[1] \o sep \o Join(Tail(ss), sep)

\* Array.prototype.slice(start, end) with JavaScript's treatment of negative
\* and out-of-range indices (0-based start, exclusive end)
Slice(s, start, end) ==
    LET n  == Len(s)
        from == IF start < 0 THEN Max(n + start, 0) ELSE Min(start, n)
        to   == IF end < 0 THEN Max(n + end, 0) ELSE Min(end, n)
    IN IF from >= to THEN <<>> ELSE SubSeq(s, from + 1, to)

\* whether a occurs in b as a contiguous substring
IsSubstr(a, b) ==
    \E k \in 0..(Len(b) - Len(a)) : SubSeq(b, k + 1, k + Len(a)) = a

RECURSIVE SortedSeq(_)
\* the elements of a finite set of integers in ascending order
SortedSeq(S) ==
    IF S = {} THEN <<>>
    ELSE LET m == CHOOSE x \in S : \A y \in S : x <= y
         IN <<m>> \o SortedSeq(S \ {m})

\* text.match(/[^.!?]+[.!?]+/g): every maximal run of non-terminators that is
\* followed by a terminator, together with the whole run of terminators after
\* it.  Leading terminators and a trailing run without terminator match nothing.
SentenceMatches(text) ==
    LET n == Len(text)
        ends == {e \in 1..n : IsTerminator(text[e])
                               /\ (e = n \/ ~IsTerminator(text[e+1]))}
        TStart(e) == CHOOSE b \in 1..e :
                        /\ \A k \in b..e : IsTerminator(text[k])
                        /\ (b = 1 \/ ~IsTerminator(text[b-1]))
        NStart(b) == CHOOSE a \in 1..b :
                        /\ \A k \in a..(b-1) : ~IsTerminator(text[k])
                        /\ (a = 1 \/ IsTerminator(text[a-1]))
        good == {e \in ends : NStart(TStart(e)) < TStart(e)}
        order == SortedSeq(good)
    IN [k \in 1..Len(order) |-> SubSeq(text, NStart(TStart(order[k])), order[k])]


-----------------------------------------------------------------------------
(* chunkText: src/lib/chunking.ts 32-129 *)

\* the character floor of the window loop ("Skip tiny chunks")
MIN_CHUNK_CHARS == 10

SEGMENTS_PER_CHUNK == 5

\* chunks.push({text: currentChunk.join(' '), index: chunkIndex++, startOffset,
\*              endOffset: startOffset + chunkText.length, wordCount}) followed by
\* startOffset += chunkText.length + 1    (lines 59-67, 88-96, 107-114)
FlushCurrent(st) ==
    LET chunkTxt == Join(st.currentChunk, <<" ">>)
    IN [st EXCEPT
          !.chunks = Append(@, [text        |-> chunkTxt,
                                index       |-> st.chunkIndex,
                                startOffset |-> st.startOffset,
                                endOffset   |-> st.startOffset + Len(chunkTxt),
                                wordCount   |-> st.currentWordCount]),
          !.chunkIndex = @ + 1,
          !.startOffset = @ + Len(chunkTxt) + 1]

\* an iteration that starts a new chunk when the sentence would fill the
\* current one exactly
SentenceStepLeavesRoom(st, sentence, tw) ==
    LET sentenceWordCount == WordCount(Trim(sentence))
    IN IF sentenceWordCount > tw
       THEN LET s1 == IF Len(st.currentChunk) > 0
                      THEN [FlushCurrent(st) EXCEPT !.currentChunk = <<>>,
                                                    !.currentWordCount = 0]
                      ELSE st
            IN [s1 EXCEPT
                  !.chunks = Append(@, [text        |-> Trim(sentence),
                                        index       |-> s1.chunkIndex,
                                        startOffset |-> s1.startOffset,
                                        endOffset   |-> s1.startOffset + Len(sentence),
                                        wordCount   |-> sentenceWordCount]),
                  !.chunkIndex = @ + 1,
                  !.startOffset = @ + Len(sentence) + 1]
       ELSE IF st.currentWordCount + sentenceWordCount < tw
       THEN [st EXCEPT !.currentChunk = Append(@, Trim(sentence)),
                       !.currentWordCount = @ + sentenceWordCount]
       ELSE LET s1 == IF Len(st.currentChunk) > 0 THEN FlushCurrent(st) ELSE st
            IN [s1 EXCEPT !.currentChunk = <<Trim(sentence)>>,
                          !.currentWordCount = sentenceWordCount]

\* one iteration of "for (const sentence of sentences)" (lines 51-103)
SentenceStep(st, sentence, tw) ==
    LET sentenceWordCount == WordCount(Trim(sentence))
    IN IF sentenceWordCount > tw
       THEN LET s1 == IF Len(st.currentChunk) > 0
                      THEN [FlushCurrent(st) EXCEPT !.currentChunk = <<>>,
                                                    !.currentWordCount = 0]
                      ELSE st
            IN [s1 EXCEPT
                  !.chunks = Append(@, [text        |-> Trim(sentence),
                                        index       |-> s1.chunkIndex,
                                        startOffset |-> s1.startOffset,
                                        endOffset   |-> s1.startOffset + Len(sentence),
                                        wordCount   |-> sentenceWordCount]),
                  !.chunkIndex = @ + 1,
                  !.startOffset = @ + Len(sentence) + 1]
       ELSE IF st.currentWordCount + sentenceWordCount <= tw
       THEN [st EXCEPT !.currentChunk = Append(@, Trim(sentence)),
                       !.currentWordCount = @ + sentenceWordCount]
       ELSE LET s1 == IF Len(st.currentChunk) > 0 THEN FlushCurrent(st) ELSE st
            IN [s1 EXCEPT !.currentChunk = <<Trim(sentence)>>,
                          !.currentWordCount = sentenceWordCount]

RECURSIVE SentenceLoop(_, _, _, _)
SentenceLoop(st, sentences, k, tw) ==
    IF k > Len(sentences) THEN st
    ELSE SentenceLoop(SentenceStep(st, sentences[k], tw), sentences, k + 1, tw)

chunkText(text, tw) ==
    IF Len(Trim(text)) = 0 \/ WordCount(Trim(text)) = 0 THEN <<>>
    ELSE
      LET m == SentenceMatches(text)
          sentences == IF Len(m) = 0 THEN <<text>> ELSE m
          st0 == [chunks |-> <<>>, currentChunk |-> <<>>, currentWordCount |-> 0,
                  chunkIndex |-> 0, startOffset |-> 0]
          st1 == SentenceLoop(st0, sentences, 1, tw)
          st2 == IF Len(st1.currentChunk) > 0 THEN FlushCurrent(st1) ELSE st1
          out == st2.chunks
      IN IF Len(out) = 0 \/ (\A k \in 1..Len(out) : out[k].wordCount = 0)
         THEN <<>>
         ELSE out

-----------------------------------------------------------------------------
(* chunkTranscriptSimple / combineTranscript: src/lib/chunking.ts 193-258 *)

\* the value of a timestamp the scans leave undefined (real timestamps are >= 0)
Undefined == -1

combineTranscript(tr) == Join([k \in 1..Len(tr) |-> tr[k].text], <<" ">>)

\* the two "for (let i = 0; i < transcript.length; i++)" scans (lines 214-241):
\* the first item with textPos <= offset < textPos + itemLength, or none
ItemAt(tr, offset) ==
    LET texts == [k \in 1..Len(tr) |-> tr[k].text]
        hits == {k \in 1..Len(tr) :
                    /\ SumLen(texts, k - 1) <= offset
                    /\ offset < SumLen(texts, k - 1) + Len(tr[k].text)}
    IN IF hits = {} THEN 0 ELSE CHOOSE k \in hits : \A m \in hits : k <= m

chunkTranscriptSimple(tr, tw) ==
    LET textChunks == chunkText(combineTranscript(tr), tw)
        Stamp(chunk) ==
            LET s == ItemAt(tr, chunk.startOffset)
                e == ItemAt(tr, chunk.endOffset)
            IN [text |-> chunk.text, index |-> chunk.index,
                startOffset |-> chunk.startOffset, endOffset |-> chunk.endOffset,
                wordCount |-> chunk.wordCount,
                timestamp    |-> IF s = 0 THEN Undefined ELSE tr[s].offset,
                endTimestamp |-> IF e = 0 THEN Undefined
                                 ELSE tr[e].offset + tr[e].duration]
    IN [k \in 1..Len(textChunks) |-> Stamp(textChunks[k])]

-----------------------------------------------------------------------------
(* chunkTranscript: src/lib/chunking.ts 138-188, one loop iteration per step *)

\* index: chunks.length (line 176)
NextWindowIndexByOffset(chs, ii) == ii

NextWindowIndex(chs, ii) == Len(chs)

\* i += SEGMENTS_PER_CHUNK - OVERLAP (line 155)
Stride == SEGMENTS_PER_CHUNK - overlapSegments

\* chunkSegments.map(s => s.text).join(' ').trim() (lines 156-161)
WindowSegments(tr, ii) == Slice(tr, ii, ii + SEGMENTS_PER_CHUNK)

WindowText(tr, ii) ==
    LET segs == WindowSegments(tr, ii)
    IN Trim(Join([k \in 1..Len(segs) |-> segs[k].text], <<" ">>))

\* lines 156-183: the loop body, the chunks array after it
WindowBody(tr, ii, chs) ==
    LET chunkSegments == WindowSegments(tr, ii)
        text == WindowText(tr, ii)
    IN IF Len(chunkSegments) = 0 \/ Len(text) < MIN_CHUNK_CHARS
       THEN chs
       ELSE Append(chs,
              [text |-> text,
               index |-> NextWindowIndex(chs, ii),
               startOffset |-> 0,
               endOffset |-> 0,
               wordCount |-> WordCount(text),
               timestamp |-> chunkSegments[1].offset,
               endTimestamp |-> chunkSegments[Len(chunkSegments)].offset
                                + chunkSegments[Len(chunkSegments)].duration])

RECURSIVE WindowLoop(_, _, _, _)
\* lines 155-187 run to the end, for an overlap below SEGMENTS_PER_CHUNK
WindowLoop(tr, ov, ii, chs) ==
    IF ~(ii < Len(tr)) THEN chs
    ELSE WindowLoop(tr, ov, ii + (SEGMENTS_PER_CHUNK - ov), WindowBody(tr, ii, chs))

\* chunkTranscript, lines 138-188, as its callers use it (overlapSegments = 1)
chunkTranscript(tr, tw, ov) ==
    IF ov <= 0 \/ Len(tr) < 10
    THEN chunkTranscriptSimple(tr, tw)
    ELSE WindowLoop(tr, ov, 0, <<>>)

\* whether chunkTranscript takes the window loop (line 144)
Windowed == ~(overlapSegments <= 0 \/ Len(transcript) < 10)

-----------------------------------------------------------------------------
(* Inputs of the chunker *)

\* largest overlapSegments tried
MaxOverlap == 6

\* largest transcript length tried (the window loop needs at least 10)
MaxSegments == 10

\* largest transcript length tried in simple mode with the sentence texts
MaxShortSegments == 2

\* loop iterations after which a run of the window loop is cut off
MaxIter == 12

TxtHello == <<"H","e","l","l","o"," ","w","o","r","l","d",".">>

TxtTest == <<"T","h","i","s"," ","i","s"," ","a"," ","t","e","s","t",".">>

TxtNoEnd == <<"T","h","i","s"," ","i","s"," ","a"," ","t","e","s","t">>

TxtTwo == <<"O","n","e","."," ","T","w","o"," ","b","!">>

TxtA == <<"a">>

TxtBlank == <<" ">>

SentenceTexts == {TxtHello, TxtTest, TxtNoEnd, TxtTwo, TxtBlank}

WindowTexts == {TxtHello, TxtA}

\* segment k of a transcript starts at (k-1) seconds and lasts one second
Segments(texts) ==
    [k \in 1..Len(texts) |-> [text |-> texts[k], offset |-> 1000 * (k - 1),
                              duration |-> 1000]]

SeqsOf(S, lo, hi) == UNION {[1..n -> S] : n \in lo..hi}

TargetWordsTried == {3, 500}

ChunkInputs ==
    {[tr |-> Segments(t), tw |-> w, ov |-> o] :
        t \in SeqsOf(SentenceTexts, 1, MaxShortSegments),
        w \in TargetWordsTried, o \in {0, 1}}
    \cup
    {[tr |-> Segments(t), tw |-> 500, ov |-> o] :
        t \in SeqsOf(WindowTexts, 10, MaxSegments), o \in 0..MaxOverlap}

-----------------------------------------------------------------------------
(* Actions of the chunker *)

ChunkInit ==
    \E inp \in ChunkInputs :
        /\ transcript = inp.tr
        /\ targetWords = inp.tw
        /\ overlapSegments = inp.ov
        /\ c_pc = "start"
        /\ i = 0
        /\ chunks = <<>>
        /\ iter = 0
        /\ vectorStore = <<>>
        /\ SearchOff
        /\ EmbedOff
        /\ ChatOff
    /\ ChatOff
        /\ AskOff
        /\ ProcOff

\* line 144-146: simple mode, the whole of chunkTranscriptSimple
ChunkSimple ==
    /\ c_pc = "start"
    /\ ~Windowed
    /\ chunks' = chunkTranscriptSimple(transcript, targetWords)
    /\ c_pc' = "done"
    /\ UNCHANGED <<transcript, targetWords, overlapSegments, i, iter>>
    /\ UNCHANGED <<vectorStore, searchVars, askVars, histVars, procVars,
                   embedVars, chatVars>>

\* lines 151-155: enter the window loop with i = 0
WindowEnter ==
    /\ c_pc = "start"
    /\ Windowed
    /\ c_pc' = "window"
    /\ i' = 0
    /\ chunks' = <<>>
    /\ UNCHANGED <<transcript, targetWords, overlapSegments, iter>>
    /\ UNCHANGED <<vectorStore, searchVars, askVars, histVars, procVars,
                   embedVars, chatVars>>

\* lines 155-183: one iteration of the loop body, then i += stride
WindowStep ==
    /\ c_pc = "window"
    /\ i < Len(transcript)
    /\ iter < MaxIter
    /\ chunks' = WindowBody(transcript, i, chunks)
    /\ i' = i + Stride
    /\ iter' = iter + 1
    /\ UNCHANGED <<c_pc, transcript, targetWords, overlapSegments>>
    /\ UNCHANGED <<vectorStore, searchVars, askVars, histVars, procVars,
                   embedVars, chatVars>>

\* line 155 (loop condition false) and 187: return chunks
WindowExit ==
    /\ c_pc = "window"
    /\ ~(i < Len(transcript))
    /\ c_pc' = "done"
    /\ UNCHANGED <<transcript, targetWords, overlapSegments, i, chunks, iter>>
    /\ UNCHANGED <<vectorStore, searchVars, askVars, histVars, procVars,
                   embedVars, chatVars>>

ChunkNext == ChunkSimple \/ WindowEnter \/ WindowStep \/ WindowExit

SpecChunk == ChunkInit /\ [][ChunkNext]_vars

-----------------------------------------------------------------------------
(* Claims about the chunker (specification SpecChunk) *)

\* the text of all produced chunks, in output order
AllChunkText == Join([k \in 1..Len(chunks) |-> chunks[k].text], <<" ">>)

\* C6: when chunkTranscript has returned, the text of every input segment
\* occurs in the produced chunk texts (no segment is missing), in both modes.
C6_ChunkCoverage ==
    c_pc = "done" =>
        \A k \in 1..Len(transcript) :
            IsSubstr(Trim(transcript[k].text), AllChunkText)

\* C7: at every point the chunks produced so far carry the indices 0,1,...,N-1
\* in output order, and every one of them has wordCount >= 1.
C7_ChunkIndexing ==
    \A k \in 1..Len(chunks) :
        /\ chunks[k].index = k - 1
        /\ chunks[k].wordCount >= 1

\* window starts the loop visits when the stride is positive
DroppedWindowStarts ==
    {j \in 0..(Len(transcript) - 1) :
        /\ Stride >= 1
        /\ j % Stride = 0
        /\ Len(WindowText(transcript, j)) < MIN_CHUNK_CHARS}

\* a finished windowed run that dropped a window before keeping a later one
C7_Witness ==
    /\ c_pc = "done"
    /\ Windowed
    /\ Len(chunks) >= 2
    /\ \E j \in DroppedWindowStarts : j < Len(transcript) - SEGMENTS_PER_CHUNK

\* C8: every iteration of the window loop advances i by the clamped stride
\* W - min(overlapSegments, W-1), which is at least 1.
C8_StrideClamped ==
    [][(c_pc = "window" /\ iter' = iter + 1) =>
          /\ i' = i + (SEGMENTS_PER_CHUNK
                        - Min(overlapSegments, SEGMENTS_PER_CHUNK - 1))
          /\ i' >= i + 1]_vars

HelloExample == Segments(<<TxtHello, TxtTest>>)

\* C9: in simple mode every produced chunk has a defined start and end
\* timestamp, and the two-segment example with targetWords = 500 gives exactly
\* one chunk from 0 s to 2.0 s.
C9_SimpleTimestamps ==
    (c_pc = "done" /\ ~Windowed) =>
        /\ \A k \in 1..Len(chunks) :
              /\ chunks[k].timestamp # Undefined
              /\ chunks[k].endTimestamp # Undefined
        /\ (transcript = HelloExample /\ targetWords = 500) =>
              /\ Len(chunks) = 1
              /\ chunks[1].timestamp = 0
              /\ chunks[1].endTimestamp = 2000

-----------------------------------------------------------------------------
(* cosineSimilarity / findSimilarEmbeddings: src/lib/embeddings.ts 413-458 *)
(*                                                                         *)
(* Embeddings are integer vectors.  A similarity  dot / (|a| * |b|)  is    *)
(* kept exactly, as the record [sgn, num, den] standing for                *)
(* sgn * sqrt(num / den), and compared by cross-multiplication; the        *)
(* rounding of the code's floating-point arithmetic is not modelled.       *)

RECURSIVE Dot(_, _)
\* a.reduce((sum, val, i) => sum + val * b[i], 0), for Len(a) = Len(b)
Dot(a, b) ==
    IF Len(a) = 0 THEN 0 ELSE a[1] * b[1] + Dot(Tail(a), Tail(b))

Sign(x) == IF x > 0 THEN 1 ELSE IF x < 0 THEN -1 ELSE 0

SimZero == [sgn |-> 0, num |-> 0, den |-> 1]

\* x < y, x = y, x > y as numbers
SimLT(x, y) ==
    IF x.sgn # y.sgn THEN x.sgn < y.sgn
    ELSE IF x.sgn = 0 THEN FALSE
    ELSE IF x.sgn = 1 THEN x.num * y.den < y.num * x.den
    ELSE x.num * y.den > y.num * x.den

SimGT(x, y) == SimLT(y, x)

SimEq(x, y) == ~SimLT(x, y) /\ ~SimLT(y, x)

\* lines 414-416: throws when the dimensions differ
DimensionsMatch(a, b) == Len(a) = Len(b)

\* the quotient taken without the zero-magnitude test of lines 426-428
cosineSimilarityUnguarded(a, b) ==
    [sgn |-> Sign(Dot(a, b)), num |-> Dot(a, b) * Dot(a, b),
     den |-> Dot(a, a) * Dot(b, b)]

\* lines 418-434, for vectors of one dimension
cosineSimilarity(a, b) ==
    IF Dot(a, a) = 0 \/ Dot(b, b) = 0 THEN SimZero
    ELSE [sgn |-> Sign(Dot(a, b)), num |-> Dot(a, b) * Dot(a, b),
          den |-> Dot(a, a) * Dot(b, b)]

\* the comparator (a, b) => b.similarity - a.similarity: positive when a
\* must come after b
Comparator(a, b) ==
    IF SimGT(b.similarity, a.similarity) THEN 1
    ELSE IF SimLT(b.similarity, a.similarity) THEN -1 ELSE 0

RECURSIVE InsertUnstable(_, _)
\* places x before the elements it ties with
InsertUnstable(sorted, x) ==
    IF Len(sorted) = 0 THEN <<x>>
    ELSE IF Comparator(sorted[1], x) >= 0 THEN <<x>> \o sorted
    ELSE <<sorted[1]>> \o InsertUnstable(Tail(sorted), x)

RECURSIVE Insert(_, _)
\* places x after every element that does not have to come after it, so
\* that elements comparing equal keep their order (Array.prototype.sort is
\* stable)
Insert(sorted, x) ==
    IF Len(sorted) = 0 THEN <<x>>
    ELSE IF Comparator(sorted[1], x) > 0 THEN <<x>> \o sorted
    ELSE <<sorted[1]>> \o Insert(Tail(sorted), x)

RECURSIVE SortWith(_, _)
\* the sorted prefix and the next element are computed once and inserted
SortWith(arr, n) ==
    IF n = 0 THEN <<>>
    ELSE CHOOSE r \in {Insert(sorted, x) : sorted \in {SortWith(arr, n - 1)},
                                           x \in {arr[n]}} : TRUE

\* similarities.sort((a, b) => b.similarity - a.similarity)
SortBySimilarity(arr) == SortWith(arr, Len(arr))

\* lines 444-458; index is the 0-based position in candidateEmbeddings
findSimilarEmbeddings(queryEmbedding, candidateEmbeddings, topK) ==
    LET similarities ==
            [k \in 1..Len(candidateEmbeddings) |->
                [index |-> k - 1,
                 similarity |-> cosineSimilarity(queryEmbedding,
                                                 candidateEmbeddings[k])]]
    IN Slice(SortBySimilarity(similarities), 0, topK)

-----------------------------------------------------------------------------
(* The vector store: src/unnamed/part_016 (lib/vectorStore) *)

\* storeChunks, lines 54-56: the count check that throws
StoreChunksThrows(chs, embeddings) == Len(chs) # Len(embeddings)

\* storeChunks, lines 58-72: the VectorChunk[] built from the arguments
VectorChunks(videoId, chs, embeddings) ==
    [k \in 1..Len(chs) |->
        [id         |-> <<videoId, chs[k].index>>,
         text       |-> chs[k].text,
         embedding  |-> embeddings[k],
         videoId    |-> videoId,
         chunkIndex |-> chs[k].index]]

\* Map.prototype.set
MapSet(map, key, value) ==
    [k \in (DOMAIN map) \cup {key} |-> IF k = key THEN value ELSE map[k]]

storeChunksAlone(map, videoId, chs, embeddings) ==
    MapSet(<<>>, videoId, VectorChunks(videoId, chs, embeddings))

storeChunksMerging(map, videoId, chs, embeddings) ==
    MapSet(map, videoId, (IF videoId \in DOMAIN map THEN map[videoId] ELSE <<>>)
                            \o VectorChunks(videoId, chs, embeddings))

\* storeChunks, line 74, for arguments that pass the count check
storeChunks(map, videoId, chs, embeddings) ==
    MapSet(map, videoId, VectorChunks(videoId, chs, embeddings))

\* getChunks, lines 82-84
getChunks(map, videoId) ==
    IF videoId \in DOMAIN map THEN map[videoId] ELSE <<>>

SearchThrowsOnMissing(map, videoId, queryEmbedding) ==
    \/ videoId \notin DOMAIN map
    \/ \E k \in 1..Len(map[videoId]) :
          Len(queryEmbedding) # Len(map[videoId][k].embedding)

\* searchSimilar, lines 113-115: cosineSimilarity throws on some candidate
SearchThrows(map, videoId, queryEmbedding) ==
    \E k \in 1..Len(getChunks(map, videoId)) :
        ~DimensionsMatch(queryEmbedding, getChunks(map, videoId)[k].embedding)

\* searchSimilar, lines 99-128, when nothing throws; matches is the value
\* findSimilarEmbeddings returned (line 113)
searchSimilar(map, videoId, queryEmbedding, topK) ==
    LET chs == getChunks(map, videoId)
    IN IF Len(chs) = 0 THEN <<>>
       ELSE CHOOSE r \in
              {[k \in 1..Len(matches) |->
                  [id         |-> chs[matches[k].index + 1].id,
                   text       |-> chs[matches[k].index + 1].text,
                   embedding  |-> chs[matches[k].index + 1].embedding,
                   videoId    |-> chs[matches[k].index + 1].videoId,
                   chunkIndex |-> chs[matches[k].index + 1].chunkIndex,
                   similarity |-> matches[k].similarity]] :
               matches \in {findSimilarEmbeddings(queryEmbedding,
                               [k \in 1..Len(chs) |-> chs[k].embedding], topK)}} :
              TRUE

\* clearStore, line 165: vectorStore.clear()
clearStore(map) == <<>>

StoreAfterSearchCreating(map, videoId) ==
    MapSet(map, videoId, getChunks(map, videoId))

\* searchSimilar, lines 104-124: the Map after the call; getChunks only reads
\* it, map() and the spread build new arrays and objects
StoreAfterSearch(map, videoId) == map

\* hasVideo, lines 133-135
hasVideo(map, videoId) ==
    videoId \in DOMAIN map /\ Len(map[videoId]) > 0

-----------------------------------------------------------------------------
(* Direct use of the store: storeChunks(videoId, chunks, embeddings) with   *)
(* chunks as the chunker numbers them, then one searchSimilar               *)

\* most records in a collection
MaxRecords == 3

\* largest topK tried
MaxTopK == 4

Vectors2 == {<<1, 0>>, <<0, 1>>, <<1, 1>>, <<0, 0>>, <<-1, 0>>}

\* a vector of another dimension, for the dimension check
OddVector == <<1>>

ChunkTexts == {"t1", "t2"}

\* chunks as both chunking modes return them: index = position
NumberedChunks(texts) ==
    [k \in 1..Len(texts) |-> [text |-> texts[k], index |-> k - 1]]

SearchInputs ==
    {[videoId |-> "v1",
      chunks |-> NumberedChunks([k \in 1..Len(e) |-> "t1"]),
      embeddings |-> e, query |-> q, topK |-> t] :
        e \in SeqsOf(Vectors2 \cup {OddVector}, 0, MaxRecords),
        q \in Vectors2, t \in 0..MaxTopK}

SearchInit ==
    \E inp \in SearchInputs :
        /\ s_input = inp
        /\ s_pc = "start"
        /\ s_result = <<>>
        /\ vectorStore = <<>>
        /\ ChunkOff
    /\ EmbedOff
    /\ ChatOff
        /\ AskOff
        /\ ProcOff

DirectStore ==
    /\ s_pc = "start"
    /\ ~StoreChunksThrows(s_input.chunks, s_input.embeddings)
    /\ vectorStore' = storeChunks(vectorStore, s_input.videoId, s_input.chunks,
                                  s_input.embeddings)
    /\ s_pc' = "stored"
    /\ UNCHANGED <<s_input, s_result, chunkVars, embedVars, chatVars, askVars,
                   histVars, procVars>>

DirectSearch ==
    /\ s_pc = "stored"
    /\ ~SearchThrows(vectorStore, s_input.videoId, s_input.query)
    /\ s_result' = searchSimilar(vectorStore, s_input.videoId, s_input.query,
                                 s_input.topK)
    /\ s_pc' = "done"
    /\ UNCHANGED <<s_input, vectorStore, chunkVars, embedVars, chatVars,
                   askVars, histVars, procVars>>

DirectSearchThrows ==
    /\ s_pc = "stored"
    /\ SearchThrows(vectorStore, s_input.videoId, s_input.query)
    /\ s_pc' = "threw"
    /\ UNCHANGED <<s_input, s_result, vectorStore, chunkVars, embedVars,
                   chatVars, askVars,
                   histVars, procVars>>

SearchNext == DirectStore \/ DirectSearch \/ DirectSearchThrows

SpecSearch == SearchInit /\ [][SearchNext]_vars

-----------------------------------------------------------------------------
(* Claims about search (specification SpecSearch) *)

\* the similarity the code computes for the record with chunk index c
StoredSimilarity(c) ==
    cosineSimilarity(s_input.query, s_input.embeddings[c + 1])

\* chunk indices of the returned matches, in order
ResultIndices == [k \in 1..Len(s_result) |-> s_result[k].chunkIndex]

\* match x ranks strictly before a record of similarity sim and index idx
RanksBefore(x, sim, idx) ==
    \/ SimGT(x.similarity, sim)
    \/ SimEq(x.similarity, sim) /\ x.chunkIndex < idx

\* C5: a search that returns gives min(topK, N) <= topK matches, each a stored
\* record with its own score, ordered by non-increasing score and, among equal
\* scores, by ascending chunk index, and every record left out ranks after
\* every record returned; embeddings (1,0),(0,1),(1,1) with query (1,0) and
\* topK = 2 give chunk 0, then chunk 2.
C5_TopK ==
    s_pc = "done" =>
        LET n == Len(s_input.embeddings)
            returned == {s_result[k].chunkIndex : k \in 1..Len(s_result)}
        IN /\ Len(s_result) <= s_input.topK
           /\ Len(s_result) = Min(s_input.topK, n)
           /\ \A k \in 1..Len(s_result) :
                 /\ s_result[k].chunkIndex \in 0..(n - 1)
                 /\ s_result[k].embedding
                       = s_input.embeddings[s_result[k].chunkIndex + 1]
                 /\ SimEq(s_result[k].similarity,
                          StoredSimilarity(s_result[k].chunkIndex))
           /\ \A k, l \in 1..Len(s_result) :
                 k < l => RanksBefore(s_result[k], s_result[l].similarity,
                                      s_result[l].chunkIndex)
           /\ \A c \in (0..(n - 1)) \ returned : \A k \in 1..Len(s_result) :
                 RanksBefore(s_result[k], StoredSimilarity(c), c)
           /\ (/\ s_input.embeddings = <<(<<1, 0>>), (<<0, 1>>), (<<1, 1>>)>>
               /\ s_input.query = <<1, 0>>
               /\ s_input.topK = 2) => ResultIndices = <<0, 2>>

\* a search that cut off records and returned two matches of equal score
C5_Witness ==
    /\ s_pc = "done"
    /\ Len(s_result) < Len(s_input.embeddings)
    /\ \E k \in 1..(Len(s_result) - 1) :
          /\ SimEq(s_result[k].similarity, s_result[k+1].similarity)
          /\ s_result[k].similarity.sgn = 1

-----------------------------------------------------------------------------
(* The /api/ask handler: src/unnamed/part_012 lines 23-229.                *)
(* The handler runs to completion between awaits, so each action is the    *)
(* code from one await to the next.                                        *)

UpperCase == <<"A","B","C","D","E","F","G","H","I","J","K","L","M",
               "N","O","P","Q","R","S","T","U","V","W","X","Y","Z">>

LowerCase == <<"a","b","c","d","e","f","g","h","i","j","k","l","m",
               "n","o","p","q","r","s","t","u","v","w","x","y","z">>

\* the case folding of the regex flag /i
ToLower(c) ==
    IF \E k \in 1..26 : UpperCase[k] = c
    THEN LowerCase[CHOOSE k \in 1..26 : UpperCase[k] = c]
    ELSE c

\* the alternatives of /^(hi|hello|hey|greetings|what's up|how are you|how's it going)/i
GreetingPhrases ==
    {<<"h","i">>,
     <<"h","e","l","l","o">>,
     <<"h","e","y">>,
     <<"g","r","e","e","t","i","n","g","s">>,
     <<"w","h","a","t","'","s"," ","u","p">>,
     <<"h","o","w"," ","a","r","e"," ","y","o","u">>,
     <<"h","o","w","'","s"," ","i","t"," ","g","o","i","n","g">>}

\* line 56: the regex tested on question.trim()
isGreeting(question) ==
    LET t == Trim(question)
    IN \E p \in GreetingPhrases :
          /\ Len(p) <= Len(t)
          /\ \A k \in 1..Len(p) : ToLower(t[k]) = p[k]

NeverSkipsSearch(question) == FALSE

\* line 63: if (!isGreeting) { search } else { skipped }
SkipsSearch(question) == isGreeting(question)

\* line 79: the topK passed to searchSimilar
SEARCH_TOP_K == 3

\* line 84: 0.3, as the similarity sqrt(9/100)
SimThreshold == [sgn |-> 1, num |-> 9, den |-> 100]

\* lines 83-90: foundChunks.filter(c => c.similarity > 0.3).map(...)
similarChunks(found) ==
    LET kept == SelectSeq(found, LAMBDA c : SimGT(c.similarity, SimThreshold))
    IN [k \in 1..Len(kept) |-> [text |-> kept[k].text,
                                similarity |-> kept[k].similarity,
                                embedding |-> kept[k].embedding]]

(* the events, as the JSON objects the handler enqueues *)

Ev(step, status) == [step |-> step, status |-> status]

\* lines 98-108
SearchCompleteEvent(found, ctx) ==
    [step |-> 2, status |-> "complete", chunkCount |-> Len(found),
     similarities |-> [k \in 1..Len(ctx) |-> ctx[k].similarity]]

\* lines 111-118
SkippedEvent == [step |-> 2, status |-> "skipped", chunkCount |-> 0]

\* lines 150-152
TokenEvent(tok) == [step |-> 3, status |-> "streaming", chunk |-> tok]

\* a complete event listing every match of the search as a source
CompleteEventAllMatches(answer, found, ctx) ==
    [step |-> 3, status |-> "complete", complete |-> TRUE, answer |-> answer,
     chunkCount |-> Len(found),
     sources |-> [k \in 1..Len(found) |-> [segment |-> k,
                                           text |-> found[k].text,
                                           similarity |-> found[k].similarity]]]

\* lines 167-201
CompleteEvent(answer, found, ctx) ==
    [step |-> 3, status |-> "complete", complete |-> TRUE, answer |-> answer,
     chunkCount |-> Len(found),
     sources |-> [k \in 1..Len(ctx) |-> [segment |-> k, text |-> ctx[k].text,
                                         similarity |-> ctx[k].similarity]]]

\* lines 207-209
ErrorEvent == [step |-> 0, status |-> "error"]

GreetingBranchEventsSwapped == <<Ev(3, "processing"), SkippedEvent>>

\* lines 111-124: the events of the greeting branch up to the generation call
GreetingBranchEvents == <<SkippedEvent, Ev(3, "processing")>>

StreamErrorEventsFallThrough(answer, found, ctx) ==
    <<ErrorEvent, CompleteEvent(answer, found, ctx)>>

\* lines 204-210: what the catch block enqueues before it closes the stream
StreamErrorEvents(answer, found, ctx) == <<ErrorEvent>>

\* controller.enqueue throws a TypeError once the caller has cancelled the
\* stream (the stream is then closed); the handler registers no cancel callback
EnqueueThrows(cancelled) == cancelled

-----------------------------------------------------------------------------
(* Inputs of the ask specification *)

\* chunks read from the provider's stream per request
MaxDeltas == 2

\* storeChunks calls by processing requests
MaxStores == 2

Corpora == {"v1", "v2"}

QHiUpper == <<" ","H","I","!">>

QHistory == <<"h","i","s","t","o","r","y">>

QOhHi == <<"o","h"," ","h","i">>

Questions == {QHiUpper, QHistory, QOhHi, <<>>}

\* what generateEmbedding may return for a question
QueryVectors == {<<1, 0>>, <<1, 1>>, <<1, 0, 0, 0>>}

\* delta.content of a chunk of the completion stream
Deltas == {"", "a", "b"}

ProcOutput(text, embeddings) ==
    [chunks |-> NumberedChunks([k \in 1..Len(embeddings) |-> text]),
     embeddings |-> embeddings]

\* what a processing request may pass to storeChunks: the chunker's chunks
\* with one embedding each
ProcOutputs ==
    {ProcOutput("t1", <<(<<1, 1>>), (<<1, 0>>)>>),
     ProcOutput("t2", <<(<<0, 1>>), (<<1, 3>>), (<<-1, 0>>)>>),
     ProcOutput("t1", <<(<<3, 9, 3, 1>>), (<<1, 0, 0, 0>>), (<<0, 1, 0, 0>>)>>),
     ProcOutput("t1", <<>>)}

AskInit ==
    /\ ChunkOff
    /\ EmbedOff
    /\ ChatOff
    /\ SearchOff
    /\ ProcOff
    /\ vectorStore = <<>>
    /\ a_pc = "idle"
    /\ a_req = <<>>
    /\ a_events = <<>>
    /\ a_cancelled = FALSE
    /\ a_embedding = <<>>
    /\ a_found = <<>>
    /\ a_context = <<>>
    /\ a_answer = <<>>
    /\ a_stream = "none"
    /\ a_deltas = 0
    /\ a_yielded = <<>>
    /\ a_calls = <<>>
    /\ a_cancelAt = -1
    /\ installed = [v \in Corpora |-> {}]
    /\ writes = 0

-----------------------------------------------------------------------------
(* Actions of the ask handler *)

AskFrame == UNCHANGED <<chunkVars, embedVars, chatVars, searchVars,
                        vectorStore, histVars, procVars>>

\* the catch block, lines 204-211: enqueue the error event and close; when the
\* stream is cancelled that enqueue throws too and start() rejects
CatchKeepsGoing(evs, errorEvents) ==
    IF EnqueueThrows(a_cancelled)
    THEN /\ a_events' = evs
         /\ a_pc' = "aborted"
    ELSE /\ a_events' = evs \o errorEvents
         /\ a_pc' = a_pc

\* a catch block that enqueues the error event and leaves the stream open
CatchLeavesOpen(evs, errorEvents) ==
    IF EnqueueThrows(a_cancelled)
    THEN /\ a_events' = evs
         /\ a_pc' = "aborted"
    ELSE /\ a_events' = evs \o errorEvents
         /\ a_pc' = "error_sent"

Catch(evs, errorEvents) ==
    IF EnqueueThrows(a_cancelled)
    THEN /\ a_events' = evs
         /\ a_pc' = "aborted"
    ELSE /\ a_events' = evs \o errorEvents
         /\ a_pc' = "closed"

\* an enqueue in the try block threw: control goes to the catch block
Abort == Catch(a_events, <<ErrorEvent>>)

\* lines 28-33: the 400 response, no stream
AskReject ==
    /\ a_pc = "idle"
    /\ \E v \in Corpora : a_req' = [videoId |-> v, question |-> <<>>]
    /\ a_pc' = "rejected"
    /\ UNCHANGED <<a_events, a_cancelled, a_embedding, a_found, a_context,
                   a_answer, a_stream, a_deltas, a_yielded, a_calls, a_cancelAt>>
    /\ AskFrame

\* lines 38-48: start() up to the await of generateEmbedding
AskStart ==
    /\ a_pc = "idle"
    /\ \E v \in Corpora, q \in Questions \ {<<>>} :
          a_req' = [videoId |-> v, question |-> q]
    /\ a_events' = <<Ev(1, "processing")>>
    /\ a_calls' = <<[op |-> "embed"]>>
    /\ a_pc' = "embedding"
    /\ UNCHANGED <<a_cancelled, a_embedding, a_found, a_context, a_answer,
                   a_stream, a_deltas, a_yielded, a_cancelAt>>
    /\ AskFrame

\* lines 48-70 (no greeting) or 48-132 (greeting): generateEmbedding resolved
AskEmbedded ==
    /\ a_pc = "embedding"
    /\ \E e \in QueryVectors : a_embedding' = e
    /\ IF EnqueueThrows(a_cancelled)
       THEN /\ Abort
            /\ UNCHANGED <<a_context, a_calls>>
       ELSE IF SkipsSearch(a_req.question)
       THEN /\ a_events' = a_events \o <<Ev(1, "complete")>> \o GreetingBranchEvents
            /\ a_context' = <<>>
            /\ a_calls' = Append(a_calls, [op |-> "generate", context |-> <<>>])
            /\ a_pc' = "gen_call"
       ELSE /\ a_events' = a_events \o <<Ev(1, "complete"), Ev(2, "processing")>>
            /\ a_pc' = "delay1"
            /\ UNCHANGED <<a_context, a_calls>>
    /\ UNCHANGED <<a_req, a_cancelled, a_found, a_answer, a_stream, a_deltas,
                   a_yielded, a_cancelAt>>
    /\ AskFrame

\* line 48: generateEmbedding rejected
AskEmbedFails ==
    /\ a_pc = "embedding"
    /\ Abort
    /\ UNCHANGED <<a_req, a_cancelled, a_embedding, a_found, a_context,
                   a_answer,
                   a_stream, a_deltas, a_yielded, a_calls, a_cancelAt>>
    /\ AskFrame

\* lines 70-77: after the first 800 ms delay
AskDelay1 ==
    /\ a_pc = "delay1"
    /\ IF EnqueueThrows(a_cancelled)
       THEN Abort
       ELSE /\ a_events' = Append(a_events, Ev(2, "processing"))
            /\ a_pc' = "delay2"
    /\ UNCHANGED <<a_req, a_cancelled, a_embedding, a_found, a_context,
                   a_answer,
                   a_stream, a_deltas, a_yielded, a_calls, a_cancelAt>>
    /\ AskFrame

\* lines 77-132: after the second delay: search, filter, step 2 complete,
\* step 3 processing, the call of generateAnswer
AskSearch ==
    /\ a_pc = "delay2"
    /\ LET searched == Append(a_calls, [op |-> "search",
                                        videoId |-> a_req.videoId,
                                        topK |-> SEARCH_TOP_K])
       IN IF SearchThrows(vectorStore, a_req.videoId, a_embedding)
          THEN /\ Abort
               /\ a_calls' = searched
               /\ UNCHANGED <<a_found, a_context>>
          ELSE \E found \in {searchSimilar(vectorStore, a_req.videoId,
                                          a_embedding, SEARCH_TOP_K)} :
               \E ctx \in {similarChunks(found)} :
                  /\ a_found' = found
                  /\ a_context' = ctx
                  /\ IF EnqueueThrows(a_cancelled)
                     THEN /\ Abort
                          /\ a_calls' = searched
                     ELSE /\ a_events' = a_events
                                \o <<SearchCompleteEvent(found, ctx),
                                     Ev(3, "processing")>>
                          /\ a_calls' = Append(searched,
                                [op |-> "generate", context |-> ctx])
                          /\ a_pc' = "gen_call"
    /\ vectorStore' = StoreAfterSearch(vectorStore, a_req.videoId)
    /\ UNCHANGED <<a_req, a_cancelled, a_embedding, a_answer, a_stream,
                   a_deltas,
                   a_yielded, a_cancelAt>>
    /\ UNCHANGED <<chunkVars, embedVars, chatVars, searchVars, histVars,
                   procVars>>

\* lines 126-145 with generateAnswer (lib/groq) 166-186: the completion was
\* created, generateAnswer returned the generator and the for-await loop asked
\* it for its first token
AskGenCallReturns ==
    /\ a_pc = "gen_call"
    /\ a_stream' = "open"
    /\ a_pc' = "gen_wait"
    /\ UNCHANGED <<a_req, a_events, a_cancelled, a_embedding, a_found,
                   a_context,
                   a_answer, a_deltas, a_yielded, a_calls, a_cancelAt>>
    /\ AskFrame

\* generateAnswer 206-217: creating the completion failed and generateAnswer
\* rethrew
AskGenCallFails ==
    /\ a_pc = "gen_call"
    /\ Abort
    /\ UNCHANGED <<a_req, a_cancelled, a_embedding, a_found, a_context,
                   a_answer,
                   a_stream, a_deltas, a_yielded, a_calls, a_cancelAt>>
    /\ AskFrame

\* generateAnswer 178-183 and handler 145-153: the completion stream delivered a
\* chunk; the generator skips empty content and yields the rest; the loop body
\* accumulates the token and enqueues it; when the enqueue throws the loop is
\* left (no try/catch inside it), which calls the generator's return() and so
\* releases the completion stream
AskGenDelta ==
    /\ a_pc = "gen_wait"
    /\ a_deltas < MaxDeltas
    /\ a_deltas' = a_deltas + 1
    /\ \E content \in Deltas :
          IF content = ""
          THEN UNCHANGED <<a_events, a_answer, a_stream, a_yielded, a_pc>>
          ELSE /\ a_yielded' = Append(a_yielded, content)
               /\ a_answer' = Append(a_answer, content)
               /\ IF EnqueueThrows(a_cancelled)
                  THEN /\ a_stream' = "released"
                       /\ Abort
                  ELSE /\ a_events' = Append(a_events, TokenEvent(content))
                       /\ UNCHANGED <<a_stream, a_pc>>
    /\ UNCHANGED <<a_req, a_cancelled, a_embedding, a_found, a_context, a_calls,
                   a_cancelAt>>
    /\ AskFrame

\* generateAnswer 184-185 and handler 159-203: the completion stream ended, the
\* loop is left, the complete event is enqueued and the stream closed
AskGenDone ==
    /\ a_pc = "gen_wait"
    /\ a_stream' = "ended"
    /\ IF EnqueueThrows(a_cancelled)
       THEN Abort
       ELSE /\ a_events' = Append(a_events,
                                  CompleteEvent(a_answer, a_found, a_context))
            /\ a_pc' = "closed"
    /\ UNCHANGED <<a_req, a_cancelled, a_embedding, a_found, a_context,
                   a_answer,
                   a_deltas, a_yielded, a_calls, a_cancelAt>>
    /\ AskFrame

\* the completion stream threw while it was read: the exception passes through
\* the generator and the loop to the catch block
AskGenStreamFails ==
    /\ a_pc = "gen_wait"
    /\ a_stream' = "failed"
    /\ Catch(a_events, StreamErrorEvents(a_answer, a_found, a_context))
    /\ UNCHANGED <<a_req, a_cancelled, a_embedding, a_found, a_context,
                   a_answer,
                   a_deltas, a_yielded, a_calls, a_cancelAt>>
    /\ AskFrame

\* the caller cancels the response stream (or disconnects) while the handler
\* is suspended
Cancel ==
    /\ a_pc \in {"embedding", "delay1", "delay2", "gen_call", "gen_wait"}
    /\ ~a_cancelled
    /\ a_cancelled' = TRUE
    /\ a_cancelAt' = Len(a_yielded)
    /\ UNCHANGED <<a_pc, a_req, a_events, a_embedding, a_found, a_context,
                   a_answer, a_stream, a_deltas, a_yielded, a_calls>>
    /\ AskFrame

\* a processing request reaches its storeChunks call (part_014 line 123,
\* app/api/process/route.ts line 213)
ProcStore ==
    /\ writes < MaxStores
    /\ \E v \in Corpora, out \in ProcOutputs :
          /\ vectorStore' = storeChunks(vectorStore, v, out.chunks, out.embeddings)
          /\ installed' = [installed EXCEPT
                ![v] = @ \cup {VectorChunks(v, out.chunks, out.embeddings)}]
    /\ writes' = writes + 1
    /\ UNCHANGED <<chunkVars, embedVars, chatVars, searchVars, askVars,
                   procVars>>

AskNext ==
    \/ AskReject
    \/ AskStart
    \/ AskEmbedded
    \/ AskEmbedFails
    \/ AskDelay1
    \/ AskSearch
    \/ AskGenCallReturns
    \/ AskGenCallFails
    \/ AskGenDelta
    \/ AskGenDone
    \/ AskGenStreamFails
    \/ Cancel
    \/ ProcStore

SpecAsk == AskInit /\ [][AskNext]_vars

\* processing requests that store while the request below is followed to
\* its end
LiveStores == 1

\* the requests whose caller never cancels
AskNextNoCancel ==
    \/ AskReject
    \/ AskStart
    \/ AskEmbedded
    \/ AskEmbedFails
    \/ AskDelay1
    \/ AskSearch
    \/ AskGenCallReturns
    \/ AskGenCallFails
    \/ AskGenDelta
    \/ AskGenDone
    \/ AskGenStreamFails
    \/ (writes < LiveStores /\ ProcStore)

\* a step that resumes the handler after an await: the embedding provider
\* returned or failed, a timer fired (the store is read synchronously when
\* the second fires), the generation call returned or failed, the token
\* stream ended or failed
AskResumes ==
    \/ AskEmbedded
    \/ AskEmbedFails
    \/ AskDelay1
    \/ AskSearch
    \/ AskGenCallReturns
    \/ AskGenCallFails
    \/ AskGenDone
    \/ AskGenStreamFails

\* every await of the handler is eventually resumed; at each position of the
\* handler only the steps of that position are enabled, and a token that
\* arrives leaves the end and the failure of the stream enabled
AskFairness == WF_vars(AskResumes)

SpecAskLive == AskInit /\ [][AskNextNoCancel]_vars /\ AskFairness

-----------------------------------------------------------------------------
(* Properties of the ask handler *)

Last(seq) == seq[Len(seq)]

IsTerminal(e) == e.status = "error" \/ (e.step = 3 /\ e.status = "complete")

IsToken(e) == e.step = 3 /\ e.status = "streaming"

IsSearchOutcome(e) == e.step = 2 /\ e.status \in {"complete", "skipped"}

\* the place of an event in the order: embedding, search, generation, terminal
Rank(e) ==
    IF IsTerminal(e) THEN 7
    ELSE IF e.step = 1 THEN (IF e.status = "processing" THEN 1 ELSE 2)
    ELSE IF e.step = 2 THEN (IF e.status = "processing" THEN 3 ELSE 4)
    ELSE IF e.status = "processing" THEN 5 ELSE 6

\* the tokens of the token events, in the order of the events
ForwardedTokens ==
    LET toks == SelectSeq(a_events, IsToken)
    IN [k \in 1..Len(toks) |-> toks[k].chunk]

CallIndices(op) == {k \in 1..Len(a_calls) : a_calls[k].op = op}

\* C1: the events of a request are in stage order: step 1, then exactly one
\* search outcome (step 2 complete or skipped), then step 3 processing, then
\* the token events, then the terminal event; no event of an earlier stage
\* follows one of a later stage; the token events carry the tokens the
\* generator yielded, one event per token in the same order (all of them
\* while the caller has not cancelled).
C1_StageOrder ==
    /\ \A j, k \in 1..Len(a_events) :
          j < k => /\ Rank(a_events[j]) <= Rank(a_events[k])
                   /\ Rank(a_events[j]) = Rank(a_events[k])
                         => Rank(a_events[j]) \in {3, 6}
    /\ \A k \in 1..Len(a_events) :
          a_events[k].step = 3
             => Cardinality({j \in 1..k : IsSearchOutcome(a_events[j])}) = 1
    /\ \A k \in 1..Len(a_events) :
          IsToken(a_events[k]) => \E j \in 1..(k - 1) : Rank(a_events[j]) = 5
    /\ Len(a_events) > 0 => a_events[1] = Ev(1, "processing")
    /\ Len(ForwardedTokens) <= Len(a_yielded)
    /\ ForwardedTokens = SubSeq(a_yielded, 1, Len(ForwardedTokens))
    /\ ~a_cancelled => ForwardedTokens = a_yielded

\* a searched request that streamed two different tokens and completed
C1_Witness ==
    /\ a_pc = "closed"
    /\ Len(a_events) > 0
    /\ Last(a_events).status = "complete"
    /\ Len(a_yielded) >= 2
    /\ a_yielded[1] # a_yielded[2]
    /\ \E k \in 1..Len(a_events) :
          a_events[k].step = 2 /\ a_events[k].status = "complete"

\* C2: a request emits at most one terminal event (one complete event or one
\* error event, never both, never two of a kind) and no event after it.
C2_OneTerminal ==
    /\ \A k \in 1..Len(a_events) : IsTerminal(a_events[k]) => k = Len(a_events)
    /\ Cardinality({k \in 1..Len(a_events) : IsTerminal(a_events[k])}) <= 1
    /\ a_pc = "closed" => /\ Len(a_events) > 0
                          /\ IsTerminal(Last(a_events))

\* the provider's stream failed after tokens had been forwarded
C2_Witness ==
    /\ a_pc = "closed"
    /\ a_stream = "failed"
    /\ Len(a_events) > 0
    /\ Last(a_events) = ErrorEvent
    /\ Len(ForwardedTokens) >= 1

\* C3: once the caller has cancelled during generation, no further event is
\* forwarded, no further token is taken from the generation stream, and the
\* store is left as it is by the request.
C3_CancelStopsGeneration ==
    [][(a_cancelled /\ a_pc \in {"gen_call", "gen_wait"})
          => /\ a_events' = a_events
             /\ a_yielded' = a_yielded
             /\ a_answer' = a_answer
             /\ (writes' = writes => vectorStore' = vectorStore)]_vars

Strip(c) == [id |-> c.id, text |-> c.text, embedding |-> c.embedding,
             videoId |-> c.videoId, chunkIndex |-> c.chunkIndex]

Range(seq) == {seq[k] : k \in 1..Len(seq)}

\* C4: whatever processing requests store around a request's search, the
\* records the search returns are the search result over one collection that
\* was installed for the video (or over none): never records of two of them.
C4_AtomicReplace ==
    CallIndices("search") # {} =>
       \E coll \in installed[a_req.videoId] \cup {<<>>} :
          LET one == MapSet(<<>>, a_req.videoId, coll)
          IN /\ \A k \in 1..Len(a_found) : Strip(a_found[k]) \in Range(coll)
             /\ IF SearchThrows(one, a_req.videoId, a_embedding)
                THEN a_found = <<>>
                ELSE a_found = searchSimilar(one, a_req.videoId,
                                             a_embedding, SEARCH_TOP_K)

\* the search returned two records of a collection that a processing request
\* has replaced since, none of them in the collection now stored
C4_Witness ==
    /\ a_pc = "gen_wait"
    /\ Len(a_found) >= 2
    /\ Cardinality(installed[a_req.videoId]) >= 2
    /\ \A k \in 1..Len(a_found) :
          Strip(a_found[k]) \notin Range(getChunks(vectorStore, a_req.videoId))

\* C10: a greeting (case-insensitive prefix match of the trimmed question)
\* never calls the search, has no search-stage event but one with status
\* skipped (exactly one once generation is invoked) and invokes generation
\* with an empty context; any other question has called the search exactly
\* once, with topK = 3, before generation is invoked.
C10_GreetingSkipsSearch ==
    a_pc \notin {"idle", "rejected"} =>
       LET stage2 == {k \in 1..Len(a_events) : a_events[k].step = 2}
       IN IF isGreeting(a_req.question)
          THEN /\ CallIndices("search") = {}
               /\ \A k \in stage2 : a_events[k].status = "skipped"
               /\ Cardinality(stage2) <= 1
               /\ \A g \in CallIndices("generate") :
                     /\ Cardinality(stage2) = 1
                     /\ a_calls[g].context = <<>>
               /\ a_context = <<>>
          ELSE /\ Cardinality(CallIndices("search")) <= 1
               /\ \A k \in stage2 : a_events[k].status # "skipped"
               /\ \A g \in CallIndices("generate") :
                     \E k \in 1..(g - 1) :
                        /\ CallIndices("search") = {k}
                        /\ a_calls[k].topK = 3
                        /\ a_calls[k].videoId = a_req.videoId

\* " HI!" asked about a video that has no stored collection, answered
C10_Witness ==
    /\ a_pc = "closed"
    /\ a_req.question = QHiUpper
    /\ ~hasVideo(vectorStore, a_req.videoId)
    /\ Len(a_events) > 0
    /\ Last(a_events).status = "complete"
    /\ Len(a_answer) >= 1

-----------------------------------------------------------------------------
(* Properties of the search stage of the ask handler *)

SearchCompleteIndices ==
    {k \in 1..Len(a_events) :
        a_events[k].step = 2 /\ a_events[k].status = "complete"}

\* the matches whose similarity is not below the threshold, as context entries
AtOrAboveThreshold(found) ==
    LET kept == SelectSeq(found, LAMBDA c : ~SimLT(c.similarity, SimThreshold))
    IN [k \in 1..Len(kept) |-> [text |-> kept[k].text,
                                similarity |-> kept[k].similarity,
                                embedding |-> kept[k].embedding]]

\* C11: after the search, the generation context holds exactly the matches
\* whose similarity is not below 0.3 (a match of exactly 0.3 is kept), and the
\* search-complete event reports the number of matches the search returned.
C11_ThresholdFilter ==
    \A k \in SearchCompleteIndices :
        /\ a_context = AtOrAboveThreshold(a_found)
        /\ a_events[k].chunkCount = Len(a_found)

\* C12: a question that is not a greeting, asked about a video with no stored
\* collection, ends with an error event and generation is never invoked; with
\* a stored collection the request goes on to generation whatever the search
\* finds.
C12_NotReady ==
    [][(a_pc = "delay2" /\ a_pc' # "delay2")
          => /\ ~hasVideo(vectorStore, a_req.videoId)
                   => /\ \A k \in 1..Len(a_calls') : a_calls'[k].op # "generate"
                      /\ ~a_cancelled => /\ a_pc' = "closed"
                                         /\ a_events'[Len(a_events')] = ErrorEvent
             /\ (/\ hasVideo(vectorStore, a_req.videoId)
                 /\ ~SearchThrows(vectorStore, a_req.videoId, a_embedding)
                 /\ ~a_cancelled)
                   => a_pc' = "gen_call"]_vars

-----------------------------------------------------------------------------
(* Failures of the ask handler and its effect on the store *)

HasEvent(step, status) ==
    \E k \in 1..Len(a_events) :
        a_events[k].step = step /\ a_events[k].status = status

\* what a request that ended with the error event had done when it failed
FailedCleanly ==
    (Len(a_events) > 0 /\ Last(a_events) = ErrorEvent) =>
       /\ a_pc = "closed"
       \* the embedding failed: nothing but the embedding was called
       /\ ~HasEvent(1, "complete") => a_calls = <<[op |-> "embed"]>>
       \* the search failed: it was called once and generation never
       /\ (HasEvent(1, "complete") /\ ~HasEvent(3, "processing"))
             => /\ Cardinality(CallIndices("search")) = 1
                /\ CallIndices("generate") = {}
       \* generation failed: no token was taken that was not forwarded
       /\ HasEvent(3, "processing")
             => /\ a_stream \in {"none", "failed"}
                /\ a_yielded = ForwardedTokens
       \* the progress events come first, the error event once, at the end
       /\ \A k \in 1..(Len(a_events) - 1) : ~IsTerminal(a_events[k])
       /\ a_events[1] = Ev(1, "processing")

\* C17: when a stage of a request fails no later collaborator is invoked
\* (no search or generation after an embedding failure, no generation after a
\* search failure, no further token after a generation failure), and the
\* progress events already emitted stay and precede the one error event.
C17_FailureStopsWork ==
    /\ []FailedCleanly
    /\ [][/\ Len(a_events') >= Len(a_events)
          /\ SubSeq(a_events', 1, Len(a_events)) = a_events
          /\ a_pc \in {"closed", "aborted"}
                => /\ a_calls' = a_calls
                   /\ a_yielded' = a_yielded
                   /\ a_deltas' = a_deltas
                   /\ a_events' = a_events]_vars

\* the search threw on a stored vector of another dimension
C17_Witness ==
    /\ a_pc = "closed"
    /\ Last(a_events) = ErrorEvent
    /\ HasEvent(2, "processing")
    /\ CallIndices("search") # {}
    /\ CallIndices("generate") = {}
    /\ hasVideo(vectorStore, a_req.videoId)

\* C18: no step of an ask request changes the store, whatever the question and
\* however the request ends: the store changes only by a processing request's
\* storeChunks.
C18_AskNeverWrites ==
    [][writes' = writes => vectorStore' = vectorStore]_vars

\* a request that searched a stored collection, found matches and completed
C18_Witness ==
    /\ a_pc \in {"closed", "aborted"}
    /\ CallIndices("search") # {}
    /\ Len(a_found) >= 1
    /\ writes >= 1

-----------------------------------------------------------------------------
(* Direct calls of the store's functions, in any order: src/unnamed/part_016 *)

storeChunksCallLateCheck(map, videoId, chs, embeddings) ==
    LET n == Min(Len(chs), Len(embeddings))
    IN [threw |-> StoreChunksThrows(chs, embeddings),
        map |-> MapSet(map, videoId,
                       VectorChunks(videoId, SubSeq(chs, 1, n),
                                    SubSeq(embeddings, 1, n)))]

\* storeChunks, lines 46-77, as a whole: the count check throws before
\* anything is built or installed
storeChunksCall(map, videoId, chs, embeddings) ==
    IF StoreChunksThrows(chs, embeddings)
    THEN [threw |-> TRUE, map |-> map]
    ELSE [threw |-> FALSE, map |-> storeChunks(map, videoId, chs, embeddings)]

\* calls of storeChunks in one run
MaxStoreCalls == 2

\* longest chunks / embeddings argument
MaxArgLen == 2

StoreVectors == {<<1, 0>>, OddVector}

StoreQuery == <<1, 0>>

\* the queries tried, one of them of zero norm
StoreQueries == {StoreQuery, <<0, 0>>}

StoreCallInputs ==
    {[videoId |-> v,
      chunks |-> NumberedChunks([k \in 1..n |-> "t1"]),
      embeddings |-> e] :
        v \in Corpora, n \in 0..MaxArgLen,
        e \in SeqsOf(StoreVectors, 0, MaxArgLen)}

StoreInit ==
    /\ vectorStore = <<>>
    /\ s_pc = "ready"
    /\ s_input = <<>>
    /\ s_result = <<>>
    /\ ChunkOff
    /\ EmbedOff
    /\ ChatOff
    /\ AskOff
    /\ ProcOff

StoreCall ==
    /\ writes < MaxStoreCalls
    /\ \E inp \in StoreCallInputs :
          LET r == storeChunksCall(vectorStore, inp.videoId, inp.chunks,
                                   inp.embeddings)
          IN /\ s_input' = inp
             /\ vectorStore' = r.map
             /\ s_pc' = IF r.threw THEN "store_threw" ELSE "stored"
    /\ writes' = writes + 1
    /\ UNCHANGED <<s_result, chunkVars, embedVars, chatVars, askVars,
                   installed, procVars>>

SearchCall ==
    /\ \E v \in Corpora, q \in StoreQueries, t \in 0..MaxTopK :
          /\ s_input' = [videoId |-> v, query |-> q, topK |-> t]
          /\ IF SearchThrows(vectorStore, v, q)
             THEN /\ s_pc' = "search_threw"
                  /\ s_result' = <<>>
             ELSE /\ s_pc' = "searched"
                  /\ s_result' = searchSimilar(vectorStore, v, q, t)
          /\ vectorStore' = StoreAfterSearch(vectorStore, v)
    /\ UNCHANGED <<chunkVars, embedVars, chatVars, askVars, histVars, procVars>>

\* clearStore, lines 164-167
ClearCall ==
    /\ vectorStore' = clearStore(vectorStore)
    /\ s_pc' = "cleared"
    /\ s_input' = <<>>
    /\ s_result' = <<>>
    /\ UNCHANGED <<chunkVars, embedVars, chatVars, askVars, histVars, procVars>>

StoreNext == StoreCall \/ SearchCall \/ ClearCall

SpecStore == StoreInit /\ [][StoreNext]_vars

\* C13: in every stored collection all embeddings have one dimension (a call
\* of storeChunks with embeddings of different dimensions is rejected), so a
\* search fails on no pair of stored vectors.
C13_OneDimension ==
    \A v \in DOMAIN vectorStore :
        \A j, k \in 1..Len(vectorStore[v]) :
            Len(vectorStore[v][j].embedding) = Len(vectorStore[v][k].embedding)

\* C14: a call of storeChunks with chunks.length # embeddings.length throws
\* and leaves the whole store, the video's existing collection included, as it
\* was.
C14_CountMismatch ==
    [][(writes' = writes + 1
          /\ Len(s_input'.chunks) # Len(s_input'.embeddings))
         => /\ s_pc' = "store_threw"
            /\ vectorStore' = vectorStore]_vars

\* a mismatched call for a video that has a collection of two records
C14_Witness ==
    /\ s_pc = "store_threw"
    /\ Len(s_input.chunks) >= 1
    /\ Len(s_input.embeddings) >= 1
    /\ Len(getChunks(vectorStore, s_input.videoId)) = 2

-----------------------------------------------------------------------------
(* The /api/process-transcript handler (src/unnamed/part_014), with          *)
(* generateEmbeddings (src/lib/embeddings.ts 371-397) and its caller         *)
(* processPersona (src/lib/personas.ts 110-181).                             *)

\* text.split(/\s+/).length: one more than the runs of whitespace
SplitCount(text) ==
    1 + Cardinality({k \in 1..Len(text) :
                        IsSpace(text[k]) /\ (k = 1 \/ ~IsSpace(text[k-1]))})

\* Math.round(x / y) for x >= 0, y > 0
RoundDiv(x, y) == (2 * x + y) \div (2 * y)

\* lib/youtube.ts 186-188
processManualTranscriptThrows(text) == Len(Trim(text)) = 0

\* lib/youtube.ts 185-205, in milliseconds: 150 words a minute, at least 60 s
processManualTranscript(text) ==
    LET m == SentenceMatches(text)
        sentences == IF Len(m) = 0 THEN <<text>> ELSE m
        estimated == Max(SplitCount(text) * 400, 60000)
        n == Len(sentences)
    IN [k \in 1..n |-> [text |-> Trim(sentences[k]),
                        offset |-> RoundDiv((k - 1) * estimated, n),
                        duration |-> RoundDiv(estimated, n)]]

\* the vector generateEmbedding returns for a text: some function of the text
EmbeddingOf(text) ==
    <<Len(text), Cardinality({k \in 1..Len(text) : text[k] = "a"})>>

ProgressArgsFromZero(idx, total) == <<idx, total>>

\* generateEmbeddings, line 387: onProgress(i + 1, texts.length)
ProgressArgs(idx, total) == <<idx + 1, total>>

\* part_014 line 107: if (current % 5 === 0 || current === total)
ReportsProgress(current, total) == current % 5 = 0 \/ current = total

StoreAfterEmbedItemPartial(map, videoId, chs, embeddings) ==
    MapSet(map, videoId,
           VectorChunks(videoId, SubSeq(chs, 1, Len(embeddings)), embeddings))

\* part_014 lines 104-112: the store after one embedding and its callback,
\* which only enqueue
StoreAfterEmbedItem(map, videoId, chs, embeddings) == map

(* the events of the progress stream *)

\* part_014 lines 40-57: the events of an already processed persona
CachedEvents ==
    <<Ev(1, "complete"), Ev(2, "skipped"), Ev(3, "skipped"), Ev(4, "skipped"),
      Ev(5, "skipped"), [step |-> 6, status |-> "complete", complete |-> TRUE]>>

\* lines 69-71
ParsedEvent(n) == [step |-> 2, status |-> "complete", transcriptCount |-> n]

\* lines 91-93
ChunkedEvent(n) == [step |-> 4, status |-> "complete", chunkCount |-> n]

\* lines 96-98
EmbeddingEvent(n) == [step |-> 5, status |-> "processing", chunkCount |-> n]

\* lines 108-110
ProgressEvent(current, total) ==
    [step |-> 5, status |-> "progress", embeddingCount |-> current,
     chunkCount |-> total]

\* lines 114-116
EmbeddedEvent(e, n) ==
    [step |-> 5, status |-> "complete", embeddingCount |-> e, chunkCount |-> n]

\* lines 125-127
ReadyEvent == [step |-> 6, status |-> "complete", complete |-> TRUE]

\* result.chunkCount || 0
FieldOr(rec, field, default) ==
    IF field \in DOMAIN rec THEN rec[field] ELSE default

\* personas.ts 141-173: the last event with a truthy complete field is the
\* result; the counts are read from its chunkCount and embeddingCount
processPersonaResult(events) ==
    LET done == SelectSeq(events, LAMBDA e : FieldOr(e, "complete", FALSE))
        result == IF Len(done) = 0 THEN [none |-> TRUE] ELSE done[Len(done)]
    IN [success |-> TRUE,
        chunks |-> FieldOr(result, "chunkCount", 0),
        embeddings |-> FieldOr(result, "embeddingCount", 0)]

(* inputs *)

RECURSIVE Repeat(_, _)
Repeat(s, n) == IF n = 0 THEN <<>> ELSE s \o Repeat(s, n - 1)

\* one sentence: simple mode, one chunk
TrHi == <<"H","i"," ","t","h","e","r","e",".">>

\* ten sentences of one character: the window loop, every window too short
TrDots == Repeat(<<" ", ".">>, 10)

\* ten sentences: the window loop, two chunks of different text
TrLong == Repeat(<<"a","b","."," ">>, 4) \o Repeat(<<"c","d","."," ">>, 6)

\* twenty-three sentences: the window loop, six chunks
TrSix == Repeat(<<"a","b","."," ">>, 23)

Transcripts == {TrHi, TrDots, TrLong, TrSix, TxtBlank}

\* the store when the request arrives: empty, or video v2 processed before
ProcInitStores ==
    {<<>>, storeChunks(<<>>, "v2", NumberedChunks(<<"t1">>), <<(<<1, 0>>)>>)}

ProcInit ==
    /\ ChunkOff
    /\ EmbedOff
    /\ ChatOff
    /\ SearchOff
    /\ AskOff
    /\ vectorStore \in ProcInitStores
    /\ p_pc = "idle"
    /\ p_req = <<>>
    /\ p_events = <<>>
    /\ p_cancelled = FALSE
    /\ p_segments = <<>>
    /\ p_chunks = <<>>
    /\ p_i = 0
    /\ p_acc = <<>>
    /\ p_embeddings = <<>>
    /\ p_progress = <<>>
    /\ p_result = <<>>
    /\ q_pc = "idle"

(* actions: each is the handler's code from one await to the next *)

ProcFrame == UNCHANGED <<chunkVars, embedVars, chatVars, searchVars, askVars,
                         installed, q_pc>>

\* part_014 lines 130-137: the catch block; its enqueue throws when the stream
\* was cancelled and start() rejects
ProcCatch(evs) ==
    IF EnqueueThrows(p_cancelled)
    THEN /\ p_events' = evs
         /\ p_pc' = "aborted"
    ELSE /\ p_events' = Append(evs, ErrorEvent)
         /\ p_pc' = "closed"

\* lines 147-152: the 400 response (processPersona does not call the route
\* without a transcript, personas.ts 119-126)
ProcReject ==
    /\ p_pc = "idle"
    /\ \E id \in Corpora : p_req' = [personaId |-> id, transcript |-> <<>>]
    /\ p_pc' = "rejected"
    /\ UNCHANGED <<p_events, p_cancelled, p_segments, p_chunks, p_i, p_acc,
                   p_embeddings, p_progress, p_result, vectorStore, writes>>
    /\ ProcFrame

\* lines 32-37: start() up to the first delay
ProcStart ==
    /\ p_pc = "idle"
    /\ \E id \in Corpora, t \in Transcripts :
          p_req' = [personaId |-> id, transcript |-> t]
    /\ p_events' = <<Ev(1, "extracting")>>
    /\ p_pc' = "check"
    /\ UNCHANGED <<p_cancelled, p_segments, p_chunks, p_i, p_acc, p_embeddings,
                   p_progress, p_result, vectorStore, writes>>
    /\ ProcFrame

\* lines 37-78: the hasVideo check, the cached answer or the parsing, up to the
\* second delay
ProcCheck ==
    /\ p_pc = "check"
    /\ IF EnqueueThrows(p_cancelled)
       THEN /\ ProcCatch(p_events)
            /\ UNCHANGED p_segments
       ELSE IF hasVideo(vectorStore, p_req.personaId)
       THEN /\ p_events' = p_events \o CachedEvents
            /\ p_pc' = "closed"
            /\ UNCHANGED p_segments
       ELSE IF processManualTranscriptThrows(p_req.transcript)
       THEN /\ ProcCatch(Append(p_events, Ev(2, "processing")))
            /\ UNCHANGED p_segments
       ELSE LET segs == processManualTranscript(p_req.transcript)
            IN /\ p_segments' = segs
               /\ p_events' = p_events \o <<Ev(2, "processing"),
                                            ParsedEvent(Len(segs)),
                                            Ev(3, "processing")>>
               /\ p_pc' = "memvid"
    /\ UNCHANGED <<p_req, p_cancelled, p_chunks, p_i, p_acc, p_embeddings,
                   p_progress, p_result, vectorStore, writes>>
    /\ ProcFrame

\* lines 78-104 and generateEmbeddings 371-382: chunking, and the call of
\* generateEmbeddings up to its first await
ProcChunk ==
    /\ p_pc = "memvid"
    /\ IF EnqueueThrows(p_cancelled)
       THEN /\ ProcCatch(p_events)
            /\ UNCHANGED p_chunks
       ELSE LET chs == chunkTranscript(p_segments, 500, 1)
            IN /\ p_chunks' = chs
               /\ p_events' = p_events \o <<Ev(3, "complete"), Ev(4, "processing"),
                                            ChunkedEvent(Len(chs)),
                                            EmbeddingEvent(Len(chs))>>
               /\ p_pc' = "embed"
    /\ p_i' = 0
    /\ p_acc' = <<>>
    /\ UNCHANGED <<p_req, p_cancelled, p_segments, p_embeddings, p_progress,
                   p_result, vectorStore, writes>>
    /\ ProcFrame

\* generateEmbeddings 381-389 with the callback of part_014 105-112: one text
\* embedded, pushed, reported
ProcEmbedItem ==
    /\ p_pc = "embed"
    /\ p_i < Len(p_chunks)
    /\ LET args == ProgressArgs(p_i, Len(p_chunks))
           acc == Append(p_acc, EmbeddingOf(p_chunks[p_i + 1].text))
       IN /\ p_acc' = acc
          /\ p_progress' = Append(p_progress, args)
          /\ IF ReportsProgress(args[1], args[2])
             THEN IF EnqueueThrows(p_cancelled)
                  THEN ProcCatch(p_events)
                  ELSE /\ p_events' = Append(p_events,
                                             ProgressEvent(args[1], args[2]))
                       /\ UNCHANGED p_pc
             ELSE UNCHANGED <<p_events, p_pc>>
          /\ vectorStore' = StoreAfterEmbedItem(vectorStore, p_req.personaId,
                                                p_chunks, acc)
    /\ p_i' = p_i + 1
    /\ UNCHANGED <<p_req, p_cancelled, p_segments, p_chunks, p_embeddings,
                   p_result, writes>>
    /\ ProcFrame

\* generateEmbeddings 382: generateEmbedding rejected; generateEmbeddings
\* rejects and the handler's catch block runs
ProcEmbedItemFails ==
    /\ p_pc = "embed"
    /\ p_i < Len(p_chunks)
    /\ ProcCatch(p_events)
    /\ UNCHANGED <<p_req, p_cancelled, p_segments, p_chunks, p_i, p_acc,
                   p_embeddings, p_progress, p_result, vectorStore, writes>>
    /\ ProcFrame

\* generateEmbeddings 393-397 and part_014 114-129: the loop is over, the
\* embeddings are returned, stored, and the stream is closed; no await
\* separates this from the last embedding
ProcEmbedDone ==
    /\ p_pc = "embed"
    /\ p_i = Len(p_chunks)
    /\ p_embeddings' = p_acc
    /\ IF EnqueueThrows(p_cancelled)
       THEN /\ ProcCatch(p_events)
            /\ UNCHANGED <<vectorStore, writes>>
       ELSE LET r == storeChunksCall(vectorStore, p_req.personaId, p_chunks, p_acc)
                evs == p_events \o <<EmbeddedEvent(Len(p_acc), Len(p_chunks)),
                                     Ev(6, "processing")>>
            IN /\ vectorStore' = r.map
               /\ writes' = writes + 1
               /\ IF r.threw
                  THEN ProcCatch(evs)
                  ELSE /\ p_events' = Append(evs, ReadyEvent)
                       /\ p_pc' = "closed"
    /\ UNCHANGED <<p_req, p_cancelled, p_segments, p_chunks, p_i, p_acc,
                   p_progress, p_result>>
    /\ ProcFrame

\* the caller cancels the response stream while the handler waits for a timer
\* or for an embedding
ProcCancel ==
    /\ \/ p_pc \in {"check", "memvid"}
       \/ p_pc = "embed" /\ p_i < Len(p_chunks)
    /\ ~p_cancelled
    /\ p_cancelled' = TRUE
    /\ UNCHANGED <<p_pc, p_req, p_events, p_segments, p_chunks, p_i, p_acc,
                   p_embeddings, p_progress, p_result, vectorStore, writes>>
    /\ ProcFrame

\* personas.ts 141-173: processPersona has read the stream to its end
PersonaReturns ==
    /\ p_pc = "closed"
    /\ p_result' = processPersonaResult(p_events)
    /\ p_pc' = "returned"
    /\ UNCHANGED <<p_req, p_events, p_cancelled, p_segments, p_chunks, p_i,
                   p_acc,
                   p_embeddings, p_progress, vectorStore, writes>>
    /\ ProcFrame

ProcNext ==
    \/ ProcReject
    \/ ProcStart
    \/ ProcCheck
    \/ ProcChunk
    \/ ProcEmbedItem
    \/ ProcEmbedItemFails
    \/ ProcEmbedDone
    \/ ProcCancel
    \/ PersonaReturns

SpecProc == ProcInit /\ [][ProcNext]_vars

(* a second request for the same persona and transcript, in flight at the same
   time (the same handler; its steps between the check and the store are
   taken together, and only its position is recorded) *)

OtherFrame ==
    UNCHANGED <<chunkVars, embedVars, chatVars, searchVars, askVars, installed,
                p_pc, p_req, p_events,
                p_cancelled, p_segments, p_chunks, p_i, p_acc, p_embeddings,
                p_progress, p_result>>

\* lines 32-37: the second request arrives and waits for the first delay
OtherStart ==
    /\ q_pc = "idle"
    /\ p_pc \notin {"idle", "rejected"}
    /\ q_pc' = "check"
    /\ UNCHANGED <<vectorStore, writes>>
    /\ OtherFrame

\* lines 39-104: the hasVideo check; the cached answer, or parsing, chunking
\* and the call of generateEmbeddings
OtherCheck ==
    /\ q_pc = "check"
    /\ q_pc' = IF hasVideo(vectorStore, p_req.personaId) THEN "cached"
               ELSE IF processManualTranscriptThrows(p_req.transcript)
               THEN "failed"
               ELSE "embed"
    /\ UNCHANGED <<vectorStore, writes>>
    /\ OtherFrame

\* lines 104-129: generateEmbeddings returned; storeChunks, close
OtherStore ==
    /\ q_pc = "embed"
    /\ \E segs \in {processManualTranscript(p_req.transcript)} :
       \E chs \in {chunkTranscript(segs, 500, 1)} :
          LET embeddings == [k \in 1..Len(chs) |-> EmbeddingOf(chs[k].text)]
              r == storeChunksCall(vectorStore, p_req.personaId, chs, embeddings)
          IN /\ vectorStore' = r.map
             /\ q_pc' = IF r.threw THEN "failed" ELSE "closed"
    /\ writes' = writes + 1
    /\ OtherFrame

\* generateEmbeddings rejected: the catch block, lines 130-137
OtherEmbedFails ==
    /\ q_pc = "embed"
    /\ q_pc' = "failed"
    /\ UNCHANGED <<vectorStore, writes>>
    /\ OtherFrame

ProcPairNext ==
    \/ ProcNext
    \/ OtherStart
    \/ OtherCheck
    \/ OtherStore
    \/ OtherEmbedFails

SpecProcPair == ProcInit /\ [][ProcPairNext]_vars

-----------------------------------------------------------------------------
(* Properties of the processing request *)

HasProcEvent(step, status) ==
    \E k \in 1..Len(p_events) :
        p_events[k].step = step /\ p_events[k].status = status

\* the embeddings of all chunks, in the order of the chunks
EmbeddingsOfChunks ==
    [k \in 1..Len(p_chunks) |-> EmbeddingOf(p_chunks[k].text)]

\* C15: a processing request whose chunking yields no chunk ends with an error
\* event, never with a complete event, and installs no collection.
C15_EmptyChunksFail ==
    (/\ p_pc \in {"closed", "returned"}
     /\ HasProcEvent(4, "complete")
     /\ Len(p_chunks) = 0)
       => /\ p_events[Len(p_events)] = ErrorEvent
          /\ \A k \in 1..Len(p_events) : ~FieldOr(p_events[k], "complete", FALSE)
          /\ ~hasVideo(vectorStore, p_req.personaId)

\* what holds of generateEmbeddings at every point of its loop and after it
EmbeddingsInOrder ==
    /\ Len(p_progress) = p_i
    /\ \A k \in 1..Len(p_progress) : p_progress[k] = <<k, Len(p_chunks)>>
    /\ p_pc = "embed"
          => /\ Len(p_acc) = p_i
             /\ p_acc = SubSeq(EmbeddingsOfChunks, 1, p_i)
             /\ p_embeddings = <<>>
    /\ HasProcEvent(5, "complete")
          => /\ p_embeddings = EmbeddingsOfChunks
             /\ Len(p_progress) = Len(p_chunks)
    /\ ~HasProcEvent(5, "complete") => p_embeddings = <<>>

\* C16: generateEmbeddings returns one vector per text, the i-th the embedding
\* of the i-th text, and calls onProgress once after each item with (1,n),
\* (2,n), ..., (n,n) in that order; when the embedding of item k fails the
\* callback has been called k-1 times, the call fails and nothing is returned.
C16_EmbeddingsProgress ==
    /\ []EmbeddingsInOrder
    /\ [][(p_pc = "embed" /\ p_pc' # "embed" /\ p_i < Len(p_chunks) /\ p_i' = p_i)
             => /\ p_progress' = p_progress
                /\ Len(p_progress) = p_i
                /\ p_embeddings' = <<>>
                /\ ~HasProcEvent(5, "complete")']_vars

\* six texts embedded and reported, the result returned
C16_Witness ==
    /\ p_pc = "closed"
    /\ Len(p_embeddings) = 6
    /\ Len(p_progress) = 6
    /\ HasProcEvent(5, "complete")

\* the store holds what it held at the start, or the whole collection
StoreWholeOrUntouched ==
    /\ writes <= 1
    /\ vectorStore \notin ProcInitStores
          => /\ writes = 1
             /\ HasProcEvent(5, "complete")
             /\ vectorStore[p_req.personaId]
                   = VectorChunks(p_req.personaId, p_chunks, EmbeddingsOfChunks)
    /\ (p_pc = "aborted" \/ (Len(p_events) > 0 /\ Last(p_events) = ErrorEvent))
          => vectorStore \in ProcInitStores

\* C19: a processing request writes the store once, after every chunk has
\* been embedded; a request that fails earlier leaves the store as it was, and
\* the store never holds a partly embedded collection.
C19_SingleStoreWrite ==
    /\ []StoreWholeOrUntouched
    /\ [][vectorStore' # vectorStore
             => /\ p_pc = "embed"
                /\ p_i = Len(p_chunks)
                /\ Len(p_acc) = Len(p_chunks)
                /\ p_pc' = "closed"
                /\ writes' = writes + 1]_vars

\* a transcript of two chunks was processed and installed
C19_Witness ==
    /\ p_pc = "closed"
    /\ Last(p_events) = ReadyEvent
    /\ writes = 1
    /\ Len(getChunks(vectorStore, p_req.personaId)) = 2

\* C20: when processPersona succeeds after a processing run, the chunk count
\* and the embedding count it returns are the numbers of chunks and embeddings
\* the run produced and stored, and are equal.
C20_PersonaCounts ==
    (/\ p_pc = "returned"
     /\ p_result.success
     /\ HasProcEvent(6, "processing")
     /\ Last(p_events) = ReadyEvent)
       => /\ p_result.chunks = Len(p_chunks)
          /\ p_result.embeddings = Len(p_embeddings)
          /\ p_result.chunks = Len(getChunks(vectorStore, p_req.personaId))
          /\ p_result.chunks = p_result.embeddings

\* C21: when the processing run that processPersona started ended with an
\* error event and stored nothing, processPersona returns a failure, never
\* success.
C21_PersonaReportsFailure ==
    (/\ p_pc = "returned"
     /\ Len(p_events) > 0
     /\ Last(p_events) = ErrorEvent
     /\ ~hasVideo(vectorStore, p_req.personaId))
       => ~p_result.success

\* C22: a search for a video that was never stored, or that clearStore
\* removed, returns the empty sequence and does not throw, whatever the query
\* and topK.
C22_UnknownVideoEmpty ==
    (/\ s_pc \in {"searched", "search_threw"}
     /\ ~hasVideo(vectorStore, s_input.videoId))
       => /\ s_pc = "searched"
          /\ s_result = <<>>

\* a search for a video without a collection while the other video has one
C22_Witness ==
    /\ s_pc = "searched"
    /\ ~hasVideo(vectorStore, s_input.videoId)
    /\ DOMAIN vectorStore # {}
    /\ s_input.topK >= 1
    /\ s_result = <<>>

\* C30: after a successful storeChunks the video's collection has exactly one
\* record per chunk, the i-th holding chunk i and embedding i, nothing of an
\* earlier collection; every record names the video it is stored under; the
\* collections of the other videos are unchanged.
C30_ReplaceCollection ==
    /\ [](\A v \in DOMAIN vectorStore :
            \A k \in 1..Len(vectorStore[v]) : vectorStore[v][k].videoId = v)
    /\ [][(writes' = writes + 1 /\ s_pc' = "stored")
             => LET v == s_input'.videoId
                    coll == vectorStore'[v]
                IN /\ DOMAIN vectorStore' = DOMAIN vectorStore \cup {v}
                   /\ Len(coll) = Len(s_input'.chunks)
                   /\ \A k \in 1..Len(coll) :
                         /\ coll[k].text = s_input'.chunks[k].text
                         /\ coll[k].chunkIndex = s_input'.chunks[k].index
                         /\ coll[k].id = <<v, s_input'.chunks[k].index>>
                         /\ coll[k].embedding = s_input'.embeddings[k]
                   /\ \A w \in DOMAIN vectorStore :
                         w # v => vectorStore'[w] = vectorStore[w]]_vars

\* a collection of two records replaced by one of one record while the other
\* video has a collection
C30_Witness ==
    /\ s_pc = "stored"
    /\ writes >= 2
    /\ Len(s_input.chunks) = 1
    /\ Cardinality(DOMAIN vectorStore) = 2

\* ---------------------------------------------------------------------
\* Zero-norm embeddings
\* ---------------------------------------------------------------------

IsZeroNorm(v) == Dot(v, v) = 0

\* C23: when the query embedding or a stored embedding has zero norm, the
\* similarity of that pair is exactly 0; with a zero-norm query every
\* returned match has score 0 and the matches are the first topK records in
\* ascending chunk index.
C23_ZeroNorm ==
    s_pc = "done" =>
        /\ \A k \in 1..Len(s_result) :
              (IsZeroNorm(s_input.query) \/ IsZeroNorm(s_result[k].embedding))
                  => s_result[k].similarity = SimZero
        /\ IsZeroNorm(s_input.query) =>
              ResultIndices
                  = [k \in 1..Min(s_input.topK, Len(s_input.embeddings))
                        |-> k - 1]

\* a zero-norm query over at least two records, cut off by topK
C23_Witness ==
    /\ s_pc = "done"
    /\ IsZeroNorm(s_input.query)
    /\ Len(s_input.embeddings) >= 2
    /\ s_input.topK >= 1
    /\ s_input.topK < Len(s_input.embeddings)
    /\ Len(s_result) = s_input.topK
    /\ \E c \in 1..Len(s_input.embeddings) :
          ~IsZeroNorm(s_input.embeddings[c])

\* ---------------------------------------------------------------------
\* The complete event
\* ---------------------------------------------------------------------

RECURSIVE ConcatTokens(_)
\* the text the tokens spell, one after the other
ConcatTokens(toks) ==
    IF Len(toks) = 0 THEN "" ELSE toks[1] \o ConcatTokens(Tail(toks))

IsComplete(e) == e.step = 3 /\ e.status = "complete"

\* the matches of found whose score is above the threshold, in found's order
PassedFilter(found) ==
    SelectSeq(found, LAMBDA c : SimGT(c.similarity, SimThreshold))

\* C24: in the complete event the answer is the concatenation, in order, of
\* the tokens forwarded as token events, and the sources are exactly the
\* matches that passed the similarity filter, in the order the search
\* returned them (non-increasing score), at most 3, and none on the greeting
\* path.
C24_CompleteEvent ==
    \A k \in 1..Len(a_events) :
        IsComplete(a_events[k]) =>
            LET e == a_events[k]
                passed == PassedFilter(a_found)
            IN /\ ConcatTokens(e.answer) = ConcatTokens(ForwardedTokens)
               /\ Len(e.sources) = Len(passed)
               /\ \A j \in 1..Len(e.sources) :
                     /\ e.sources[j].segment = j
                     /\ e.sources[j].text = passed[j].text
                     /\ e.sources[j].similarity = passed[j].similarity
               /\ \A j \in 1..(Len(e.sources) - 1) :
                     ~SimLT(e.sources[j].similarity,
                            e.sources[j + 1].similarity)
               /\ Len(e.sources) <= SEARCH_TOP_K
               /\ SkipsSearch(a_req.question) => e.sources = <<>>

\* a complete event after two tokens, with two sources out of three matches
C24_Witness ==
    /\ a_pc = "closed"
    /\ IsComplete(Last(a_events))
    /\ Len(ForwardedTokens) = 2
    /\ Len(Last(a_events).sources) = 2
    /\ Len(a_found) = 3
    /\ SimGT(Last(a_events).sources[1].similarity,
             Last(a_events).sources[2].similarity)

\* ---------------------------------------------------------------------
\* Termination of a request
\* ---------------------------------------------------------------------

\* the event stream of the request was opened (start() is running or has run)
StreamOpened == a_pc \notin {"idle", "rejected"}

\* C25: when the providers return or fail, the token stream ends or fails and
\* the caller does not cancel, every ask request that opened its event stream
\* eventually has emitted a terminal event (complete or error) as its last
\* event and has closed the stream.
C25_Terminates ==
    StreamOpened ~> (/\ a_pc = "closed"
                     /\ Len(a_events) > 0
                     /\ IsTerminal(Last(a_events)))

\* a request closed after the error event of a failed token stream
C25_Witness ==
    /\ a_pc = "closed"
    /\ ~a_cancelled
    /\ a_stream = "failed"
    /\ Len(ForwardedTokens) >= 1
    /\ Last(a_events).status = "error"

\* ---------------------------------------------------------------------
\* Sentence packing in simple mode
\* ---------------------------------------------------------------------

\* the sentences chunkText iterates over for the transcript (line 43)
SimpleSentences ==
    LET text == combineTranscript(transcript)
        m == SentenceMatches(text)
    IN IF Len(Trim(text)) = 0 THEN <<>>
       ELSE IF Len(m) = 0 THEN <<text>> ELSE m

RECURSIVE SumFirst(_, _)
\* the sum of the first n numbers of ns
SumFirst(ns, n) == IF n = 0 THEN 0 ELSE SumFirst(ns, n - 1) + ns[n]

\* for each n, the number of sentences whose words are the words of the first
\* n chunks, or Undefined when the first n chunks do not end at a sentence
\* boundary (every sentence has at least one word)
SentencesIn ==
    LET sents == SimpleSentences
        words == [j \in 1..Len(sents) |-> WordCount(Trim(sents[j]))]
        upTo == [j \in 0..Len(sents) |-> SumFirst(words, j)]
        counts == [k \in 1..Len(chunks) |-> chunks[k].wordCount]
    IN [n \in 0..Len(chunks) |->
          IF \E j \in 0..Len(sents) : upTo[j] = SumFirst(counts, n)
          THEN CHOOSE j \in 0..Len(sents) : upTo[j] = SumFirst(counts, n)
          ELSE Undefined]

\* C26: in simple mode the sentences are packed in input order and never
\* split: every chunk is the run of whole sentences after those of the chunk
\* before it; it has wordCount <= targetWords or is one sentence of more than
\* targetWords words; and the sentence after a chunk was not left out of it
\* while it would have fitted within targetWords.
C26_GreedyPacking ==
    (c_pc = "done" /\ ~Windowed) =>
        LET sents == SimpleSentences
            upto == SentencesIn
        IN /\ \A k \in 1..Len(chunks) :
                 /\ upto[k] # Undefined
                 /\ upto[k] > upto[k - 1]
                 /\ chunks[k].text
                       = Join([j \in 1..(upto[k] - upto[k - 1]) |->
                                  Trim(sents[upto[k - 1] + j])], <<" ">>)
                 /\ \/ chunks[k].wordCount <= targetWords
                    \/ /\ upto[k] = upto[k - 1] + 1
                       /\ WordCount(Trim(sents[upto[k]])) > targetWords
                 /\ k < Len(chunks) =>
                       chunks[k].wordCount + WordCount(Trim(sents[upto[k] + 1]))
                          > targetWords
           /\ upto[Len(chunks)] = Len(sents)

\* a run that packed two sentences into a chunk of exactly targetWords words
\* and started another chunk with the sentence after them
C26_Witness ==
    /\ c_pc = "done"
    /\ ~Windowed
    /\ Len(chunks) >= 2
    /\ chunks[1].wordCount = targetWords
    /\ SentencesIn[1] = 2

\* ---------------------------------------------------------------------
\* Two processing requests for one persona
\* ---------------------------------------------------------------------

\* C27: for one persona at most one processing request performs the batch
\* embedding and the store write, also when two requests for it are in flight
\* at the same time: the store is written at most once.
C27_ProcessOnce == writes <= 1

\* a request that finds a non-empty collection at its check takes the
\* already-processed path and does not embed or store
CachedPathTaken ==
    [][(q_pc = "check" /\ q_pc' # q_pc /\ hasVideo(vectorStore, p_req.personaId))
          => (q_pc' = "cached" /\ UNCHANGED <<vectorStore, writes>>)]_vars

-----------------------------------------------------------------------------
(* generateEmbedding: src/lib/embeddings.ts 210, 221-250, 322-362 *)

\* the value of an environment variable that is not defined
Unset == "unset"

\* values of process.env.USE_HUGGINGFACE_API tried
EnvValues == {Unset, "true", "false", "1"}

\* line 210: process.env.USE_HUGGINGFACE_API === 'true'
USE_HUGGINGFACE_API(env) == env = "true"

NeverFallsBack(useApi) == FALSE

\* line 349: if (!USE_HUGGINGFACE_API), in the catch block of the local attempt
FallsBack(useApi) == ~useApi

\* calls of generateEmbedding followed
MaxEmbedCalls == 2

EmbedTexts == {TxtHello, TxtA}

Attempt(provider, outcome) == [provider |-> provider, outcome |-> outcome]

\* the last attempt of the call gets its outcome
Settle(attempts, outcome) ==
    [attempts EXCEPT ![Len(attempts)] = Attempt(@.provider, outcome)]

EmbedOtherOff ==
    UNCHANGED <<chunkVars, vectorStore, searchVars, askVars, histVars, procVars,
                chatVars>>

EmbedInit ==
    /\ ChunkOff
    /\ SearchOff
    /\ AskOff
    /\ ProcOff
    /\ ChatOff
    /\ vectorStore = <<>>
    /\ e_pc = "idle"
    /\ e_env \in EnvValues
    /\ e_text = <<>>
    /\ e_pipeline = "null"
    /\ e_attempts = <<>>
    /\ e_result = <<>>
    /\ e_calls = 0

\* lines 322-332: the call; with the flag it is handed to generateEmbeddingAPI
\* (line 325), without it the local attempt starts (line 332)
EmbedCall ==
    /\ e_pc \in {"idle", "returned", "threw"}
    /\ e_calls < MaxEmbedCalls
    /\ e_calls' = e_calls + 1
    /\ \E text \in EmbedTexts : e_text' = text
    /\ e_result' = <<>>
    /\ IF USE_HUGGINGFACE_API(e_env)
       THEN /\ e_attempts' = <<Attempt("remote", "pending")>>
            /\ e_pc' = "api"
       ELSE /\ e_attempts' = <<Attempt("local", "pending")>>
            /\ e_pc' = "local"
    /\ UNCHANGED <<e_env, e_pipeline>>
    /\ EmbedOtherOff

\* lines 332-345 with getEmbeddingPipeline 221-250: the model is loaded if it
\* was not, the pipeline returns the embedding
EmbedLocalReturns ==
    /\ e_pc = "local"
    /\ e_pipeline' = "loaded"
    /\ e_attempts' = Settle(e_attempts, "ok")
    /\ e_result' = [ok |-> TRUE, provider |-> "local"]
    /\ e_pc' = "returned"
    /\ UNCHANGED <<e_env, e_text, e_calls>>
    /\ EmbedOtherOff

\* lines 346-353: loading the model (the cache stays as it was) or running it
\* (the model is loaded) threw; the catch block falls back to the API or, when
\* it does not, throws (line 360)
EmbedLocalFails ==
    /\ e_pc = "local"
    /\ e_pipeline' \in {e_pipeline, "loaded"}
    /\ IF FallsBack(USE_HUGGINGFACE_API(e_env))
       THEN /\ e_attempts' = Append(Settle(e_attempts, "failed"),
                                    Attempt("remote", "pending"))
            /\ e_pc' = "fallback"
            /\ UNCHANGED e_result
       ELSE /\ e_attempts' = Settle(e_attempts, "failed")
            /\ e_result' = [ok |-> FALSE, provider |-> "local"]
            /\ e_pc' = "threw"
    /\ UNCHANGED <<e_env, e_text, e_calls>>
    /\ EmbedOtherOff

\* generateEmbeddingAPI 257-302 returned, to the caller (line 325) or to the
\* fallback (line 352)
EmbedApiReturns ==
    /\ e_pc \in {"api", "fallback"}
    /\ e_attempts' = Settle(e_attempts, "ok")
    /\ e_result' = [ok |-> TRUE, provider |-> "remote"]
    /\ e_pc' = "returned"
    /\ UNCHANGED <<e_env, e_text, e_pipeline, e_calls>>
    /\ EmbedOtherOff

\* generateEmbeddingAPI 303-306 threw: the caller gets its error (line 325), or
\* the fallback logs it (353-355) and the error of the local attempt is
\* thrown (line 360)
EmbedApiFails ==
    /\ e_pc \in {"api", "fallback"}
    /\ e_attempts' = Settle(e_attempts, "failed")
    /\ e_result' = [ok |-> FALSE,
                    provider |-> IF e_pc = "api" THEN "remote" ELSE "local"]
    /\ e_pc' = "threw"
    /\ UNCHANGED <<e_env, e_text, e_pipeline, e_calls>>
    /\ EmbedOtherOff

EmbedNext ==
    \/ EmbedCall
    \/ EmbedLocalReturns
    \/ EmbedLocalFails
    \/ EmbedApiReturns
    \/ EmbedApiFails

SpecEmbed == EmbedInit /\ [][EmbedNext]_vars

Providers(attempts) == [k \in 1..Len(attempts) |-> attempts[k].provider]

\* C28: without the flag generateEmbedding tries the local model first and the
\* remote API only after the local attempt failed, once; it fails only when
\* both attempts failed; no provider is tried twice in a call. With the flag
\* it makes exactly one remote attempt and none of the local model.
C28_Fallback ==
    (e_pc \notin {"idle"}) =>
        /\ \A j, k \in 1..Len(e_attempts) :
              e_attempts[j].provider = e_attempts[k].provider => j = k
        /\ IF USE_HUGGINGFACE_API(e_env)
           THEN /\ Providers(e_attempts) = <<"remote">>
                /\ e_pipeline = "null"
           ELSE /\ Providers(e_attempts) \in {<<"local">>, <<"local", "remote">>}
                /\ Len(e_attempts) = 2 => e_attempts[1].outcome = "failed"
                /\ (e_attempts[1].outcome = "failed" /\ e_pc # "local")
                      => Len(e_attempts) = 2
        /\ e_pc = "threw" =>
              /\ ~e_result.ok
              /\ \A k \in 1..Len(e_attempts) : e_attempts[k].outcome = "failed"
        /\ e_pc = "returned" =>
              /\ e_result.ok
              /\ e_attempts[Len(e_attempts)].outcome = "ok"
              /\ e_result.provider = e_attempts[Len(e_attempts)].provider

\* a call without the flag that failed after the local model and the API had
\* each failed once
C28_Witness ==
    /\ e_pc = "threw"
    /\ e_env = Unset
    /\ Providers(e_attempts) = <<"local", "remote">>
    /\ e_calls = 2

-----------------------------------------------------------------------------
(* The chat page: src/unnamed/part_011, handleSubmit 98-256 *)

\* the data lines of the response of /api/ask, as the objects JSON.parse gives:
\* the handler's events, the answer of the complete event as text and the
\* error event with its message (part_012 167-201 and 207-209)
CompleteLine(toks) ==
    [CompleteEvent(toks, <<>>, <<>>) EXCEPT !.answer = ConcatTokens(toks)]

ErrorLine(message) == [error |-> message] @@ ErrorEvent

ErrorMessages == {"Failed to generate embedding", "Failed to generate answer"}

\* tokens of the answers tried
MaxTokens == 2

AnswerTokens == UNION {[1..n -> {"a", "b"}] : n \in 0..MaxTokens}

TokenLines(toks) == [k \in 1..Len(toks) |-> TokenEvent(toks[k])]

\* the streams the handler produces when the caller does not cancel: the
\* events of the stages passed, the tokens forwarded, one terminal event
ResponseStreams ==
    {<<Ev(1, "processing"), Ev(1, "complete")>> \o GreetingBranchEvents
        \o TokenLines(toks) \o <<CompleteLine(toks)>> : toks \in AnswerTokens}
    \cup
    {<<Ev(1, "processing"), Ev(1, "complete")>> \o GreetingBranchEvents
        \o TokenLines(toks) \o <<ErrorLine(m)>> :
        toks \in AnswerTokens, m \in ErrorMessages}
    \cup
    {<<Ev(1, "processing"), ErrorLine(m)>> : m \in ErrorMessages}

\* JavaScript truthiness of a field that holds a string when present
Truthy(data, field) == field \in DOMAIN data /\ data[field] # ""

\* JavaScript truthiness of a field that holds a boolean when present
TruthyFlag(data, field) == field \in DOMAIN data /\ data[field]

\* the setMessages updaters: the last message, when it is the assistant's,
\* gets the content
SetLastContent(msgs, content) ==
    IF Len(msgs) > 0 /\ msgs[Len(msgs)].role = "assistant"
    THEN [msgs EXCEPT ![Len(msgs)].content = content]
    ELSE msgs

ChatOtherOff ==
    UNCHANGED <<chunkVars, vectorStore, searchVars, askVars, histVars, procVars,
                embedVars>>

ChatInit ==
    /\ ChunkOff
    /\ SearchOff
    /\ AskOff
    /\ ProcOff
    /\ EmbedOff
    /\ vectorStore = <<>>
    /\ k_pc = "idle"
    /\ k_events = <<>>
    /\ k_pos = 0
    /\ k_isStreaming = FALSE
    /\ k_answerText = ""
    /\ k_messages = <<>>

\* questions submitted in one session
MaxQuestions == 2

\* lines 98-136: a non-empty question is submitted; while isStreaming the
\* handler returns at once; otherwise the two messages are added, isStreaming
\* is set and the request is sent
ChatSubmit ==
    /\ k_pc \in {"idle", "ended"}
    /\ IF k_isStreaming
       THEN UNCHANGED chatVars
       ELSE /\ Len(k_messages) < 2 * MaxQuestions
            /\ k_messages' = k_messages
                   \o <<[role |-> "user", content |-> "q"],
                        [role |-> "assistant", content |-> ""]>>
            /\ k_isStreaming' = TRUE
            /\ k_answerText' = ""
            /\ k_events' = <<>>
            /\ k_pos' = 0
            /\ k_pc' = "fetching"
    /\ ChatOtherOff

\* the outer catch block, lines 244-255
ChatCatch(message) ==
    /\ k_isStreaming' = FALSE
    /\ k_messages' = SetLastContent(k_messages, "Error: " \o message)
    /\ k_pc' = "ended"

\* lines 126-148: the response arrived with a body
ChatResponse ==
    /\ k_pc = "fetching"
    /\ \E stream \in ResponseStreams : k_events' = stream
    /\ k_pc' = "reading"
    /\ UNCHANGED <<k_pos, k_isStreaming, k_answerText, k_messages>>
    /\ ChatOtherOff

\* lines 126-141: fetch rejected, or the response was not ok (the 400 and 500
\* answers of the route)
ChatResponseFails ==
    /\ k_pc = "fetching"
    /\ ChatCatch("Failed to get answer")
    /\ UNCHANGED <<k_events, k_pos, k_answerText>>
    /\ ChatOtherOff

\* lines 154-241: reader.read() delivered a data line; the line is parsed and
\* handled; throw new Error(data.error) (line 180) is thrown inside the try
\* block whose catch (240-242) only logs 'Error parsing SSE data', so the
\* outer catch block is not reached and the loop goes on
ChatRead ==
    /\ k_pc = "reading"
    /\ k_pos < Len(k_events)
    /\ k_pos' = k_pos + 1
    /\ LET data == k_events[k_pos + 1]
       IN IF Truthy(data, "error")
          THEN UNCHANGED <<k_pc, k_isStreaming, k_answerText, k_messages>>
          ELSE IF TruthyFlag(data, "complete")
          THEN /\ k_messages' = SetLastContent(k_messages,
                                   IF Truthy(data, "answer") THEN data.answer
                                   ELSE k_answerText)
               /\ k_isStreaming' = FALSE
               /\ UNCHANGED <<k_pc, k_answerText>>
          ELSE IF Truthy(data, "chunk")
          THEN /\ k_answerText' = k_answerText \o data.chunk
               /\ k_messages' = SetLastContent(k_messages,
                                               k_answerText \o data.chunk)
               /\ UNCHANGED <<k_pc, k_isStreaming>>
          ELSE UNCHANGED <<k_pc, k_isStreaming, k_answerText, k_messages>>
    /\ UNCHANGED k_events
    /\ ChatOtherOff

\* lines 155-156: the stream is done, the loop is left and handleSubmit returns
ChatReadDone ==
    /\ k_pc = "reading"
    /\ k_pos = Len(k_events)
    /\ k_pc' = "ended"
    /\ UNCHANGED <<k_events, k_pos, k_isStreaming, k_answerText, k_messages>>
    /\ ChatOtherOff

\* line 155: reader.read() rejected (the connection broke)
ChatReadFails ==
    /\ k_pc = "reading"
    /\ k_pos < Len(k_events)
    /\ ChatCatch("network error")
    /\ UNCHANGED <<k_events, k_pos, k_answerText>>
    /\ ChatOtherOff

ChatNext ==
    \/ ChatSubmit
    \/ ChatResponse
    \/ ChatResponseFails
    \/ ChatRead
    \/ ChatReadDone
    \/ ChatReadFails

\* the browser delivers what the response holds and the end of the stream
ChatFairness == WF_vars(ChatRead \/ ChatReadDone)

SpecChat == ChatInit /\ [][ChatNext]_vars /\ ChatFairness

\* the stream that was read to its end
StreamEnded == k_pc = "ended" /\ k_pos = Len(k_events) /\ k_pos > 0

LastLine == k_events[Len(k_events)]

\* C29: after the event stream of a question has ended, with a complete event
\* or with an error event, the client eventually has isStreaming false, and
\* the message of an error event is shown in the assistant message.
C29_ClientRecovers ==
    StreamEnded ~>
        /\ ~k_isStreaming
        /\ (StreamEnded /\ Truthy(LastLine, "error")) =>
              k_messages[Len(k_messages)].content = "Error: " \o LastLine.error

=============================================================================
